---- MODULE Spec2Model ----
(***************************************************************************)
(* A model of the scene manager of the CS-330 still-life renderer:         *)
(* the texture registry (CreateGLTexture, BindGLTextures,                  *)
(* DestroyGLTextures, FindTextureID, FindTextureSlot), the material        *)
(* registry (FindMaterial) and the shader state channel (SetShaderColor,   *)
(* SetShaderTexture, SetTextureUVScale, SetShaderMaterial) that stages     *)
(* uniform values for the next mesh draw.                                  *)
(*                                                                         *)
(* Floating point values of the source are written as integers scaled by   *)
(* 100 (1.0f is 100, 0.3f is 30).  C++ arrays and vectors are functions    *)
(* over 0..n-1, so that indices are the source's indices.                  *)
(***************************************************************************)
EXTENDS Integers, Sequences, FiniteSets, TLC

VARIABLES
    m_pShaderManager,   \* "NULL" or "present": the pointer handed to the constructor
    m_textureIDs,       \* array of [ID, tag], entries 0..m_loadedTextures-1 written
    m_loadedTextures,   \* number of registered textures
    m_objectMaterials,  \* std::vector<OBJECT_MATERIAL>
    glNextName,         \* the next unused texture name glGenTextures hands out
    glActiveTexture,    \* the active texture unit (index after GL_TEXTURE0)
    glTextureUnits,     \* unit -> texture name bound to GL_TEXTURE_2D (0: none)
    shader,             \* the shader program's uniforms: [values, log]
    drawn,              \* what the most recent mesh draw consumed
    lastAppearance,     \* which of SetShaderColor / SetShaderTexture ran last
    lastCall,           \* the most recent call: its arguments and its result
    faulted,            \* a NULL shader manager was dereferenced
    pc,                 \* the call of PrepareScene / RenderScene to execute next
    unit,               \* the calls since the most recent draw, and who staged what
    gLastX,             \* float gLastX
    gLastY,             \* float gLastY
    gFirstMouse,        \* bool gFirstMouse
    cameraSpeed,        \* float cameraSpeed, in thousandths
    g_pCamera,          \* the camera's orientation
    pointer,            \* the pointer samples delivered so far
    bOrthographicProjection, \* bool bOrthographicProjection
    gDeltaTime,         \* float gDeltaTime, in milliseconds
    gLastFrame,         \* float gLastFrame, in milliseconds
    m_pWindow,          \* the display window and its close request
    rendering,          \* the sub-assembly method called on its own, if any
    unreadable          \* the image files that cannot be read or decoded

vars == <<m_pShaderManager, m_textureIDs, m_loadedTextures, m_objectMaterials,
          glNextName, glActiveTexture, glTextureUnits, shader, drawn,
          lastAppearance, lastCall, faulted, pc, unit,
          gLastX, gLastY, gFirstMouse, cameraSpeed, g_pCamera, pointer,
          bOrthographicProjection, gDeltaTime, gLastFrame, m_pWindow,
          rendering, unreadable>>

textureVars == <<m_textureIDs, m_loadedTextures, glNextName, glActiveTexture,
                 glTextureUnits>>

channelVars == <<shader, drawn, lastAppearance>>

\* the position in PrepareScene / RenderScene and its bookkeeping
renderVars == <<pc, unit, rendering>>

\* the globals of the view manager
viewVars == <<gLastX, gLastY, gFirstMouse, cameraSpeed, g_pCamera, pointer,
              bOrthographicProjection, gDeltaTime, gLastFrame, m_pWindow>>

-----------------------------------------------------------------------------
(* Bounds of the model and constants of the program *)

\* the capacity of m_textureIDs: "There are up to 16 slots"
MaxTextureSlots == 16

\* registrations explored by the registry specification
MaxLoaded == 3

\* texture names glGenTextures may hand out in the registry specification
MaxNames == 6

\* unsupported images (a name generated, nothing registered) explored while
\* the registry is driven past its capacity
MaxLeaked == 1

\* materials pushed one by one in the material specification
MaxMaterials == 3

\* textures registered in the channel specification
MaxChannelTextures == 2

NULL == "NULL"

-----------------------------------------------------------------------------
(* Arrays indexed from 0 *)

ArrayLen(a) == Cardinality(DOMAIN a)

EmptyArray == [i \in {} |-> 0]

ArrayPut(a, index, e) ==
    [i \in (DOMAIN a) \cup {index} |-> IF i = index THEN e ELSE a[i]]

push_back(a, e) == ArrayPut(a, ArrayLen(a), e)

-----------------------------------------------------------------------------
(* The image decoder: stbi_load gives NULL or an image with its channels *)

Files == {"textures/wood-floor.jpg", "textures/Door.png",
          "textures/grayscale.png", "textures/missing.jpg"}

\* the image files of the scene: JPEG images decode with 3 channels, PNG
\* images with 4
SceneJpegFiles ==
    {"textures/wood-floor.jpg", "textures/Mustard_Yellow_Rubber.jpg",
     "textures/Martinellis_Label.jpg", "textures/Aluminium_Foil.jpg",
     "textures/Cup_Blue_Pastel.jpg", "textures/Metal_Ribbon.jpg",
     "textures/Wood_trim_1.jpg", "textures/Wood_trim_2.jpg",
     "textures/Wall_texture.jpg"}

ScenePngFiles ==
    {"textures/Door.png", "textures/Jam_lable.png", "textures/Jam_lable_2.png",
     "textures/Nutrition_Label.png"}

stbi_load(filename) ==
    CASE filename \in unreadable              -> [image |-> FALSE, colorChannels |-> 0]
      [] filename \in SceneJpegFiles          -> [image |-> TRUE,  colorChannels |-> 3]
      [] filename \in ScenePngFiles           -> [image |-> TRUE,  colorChannels |-> 4]
      [] filename = "textures/grayscale.png"  -> [image |-> TRUE,  colorChannels |-> 1]
      [] OTHER                                -> [image |-> FALSE, colorChannels |-> 0]

LoadableFiles == {f \in Files : stbi_load(f).image /\ stbi_load(f).colorChannels \in {3, 4}}

Tags == {"Floor", "Door"}

LookupTags == Tags \cup {"Wall"}

-----------------------------------------------------------------------------
(* The texture registry *)

AcceptsEveryChannelCount(colorChannels) == TRUE

\* the two branches of CreateGLTexture that upload the image
ChannelsUploaded(colorChannels) == colorChannels = 3 \/ colorChannels = 4

\* m_textureIDs[index] = entry.  A write at or past the capacity of the
\* array lands outside it: what is read back from there is the entry or
\* whatever the memory holds by then.
StoredEntries(index, entry) ==
    IF index < MaxTextureSlots
    THEN {entry}
    ELSE {entry, [ID |-> 0, tag |-> ""]}

CreateGLTexture(filename, tag) ==
    LET loaded == stbi_load(filename)
        textureID == glNextName
    IN  /\ ~faulted
        /\ IF loaded.image
           THEN IF ChannelsUploaded(loaded.colorChannels)
                THEN /\ glNextName' = glNextName + 1
                     /\ glTextureUnits' = [glTextureUnits EXCEPT ![glActiveTexture] = 0]
                     /\ \E stored \in StoredEntries(m_loadedTextures,
                                                    [ID |-> textureID, tag |-> tag]) :
                           m_textureIDs' = ArrayPut(m_textureIDs, m_loadedTextures, stored)
                     /\ m_loadedTextures' = m_loadedTextures + 1
                     /\ lastCall' = [op |-> "CreateGLTexture", filename |-> filename,
                                     tag |-> tag, ret |-> TRUE, imageFreed |-> TRUE,
                                     bound2D |-> 0]
                ELSE /\ glNextName' = glNextName + 1
                     /\ glTextureUnits' = [glTextureUnits EXCEPT ![glActiveTexture] = textureID]
                     /\ UNCHANGED <<m_textureIDs, m_loadedTextures>>
                     /\ lastCall' = [op |-> "CreateGLTexture", filename |-> filename,
                                     tag |-> tag, ret |-> FALSE, imageFreed |-> FALSE,
                                     bound2D |-> textureID]
           ELSE /\ UNCHANGED <<glNextName, glTextureUnits, m_textureIDs, m_loadedTextures>>
                /\ lastCall' = [op |-> "CreateGLTexture", filename |-> filename,
                                tag |-> tag, ret |-> FALSE, imageFreed |-> TRUE,
                                bound2D |-> glTextureUnits[glActiveTexture]]
        /\ UNCHANGED <<m_pShaderManager, m_objectMaterials, glActiveTexture,
                       shader, drawn, lastAppearance, faulted>>

\* for (i < m_loadedTextures) { glActiveTexture(GL_TEXTURE0 + i); glBindTexture(.., ID) }
BindGLTextures ==
    /\ ~faulted
    /\ glTextureUnits' =
          [u \in (DOMAIN glTextureUnits) \cup (0 .. m_loadedTextures - 1) |->
              IF u < m_loadedTextures THEN m_textureIDs[u].ID ELSE glTextureUnits[u]]
    /\ glActiveTexture' =
          IF m_loadedTextures > 0 THEN m_loadedTextures - 1 ELSE glActiveTexture
    /\ lastCall' = [op |-> "BindGLTextures"]
    /\ UNCHANGED <<m_pShaderManager, m_textureIDs, m_loadedTextures, m_objectMaterials,
                   glNextName, shader, drawn, lastAppearance, faulted>>

\* for (i < m_loadedTextures) glGenTextures(1, &m_textureIDs[i].ID)
DestroyGLTextures ==
    /\ ~faulted
    /\ m_textureIDs' =
          [i \in DOMAIN m_textureIDs |->
              IF i < m_loadedTextures
              THEN [m_textureIDs[i] EXCEPT !.ID = glNextName + i]
              ELSE m_textureIDs[i]]
    /\ glNextName' = glNextName + m_loadedTextures
    /\ lastCall' = [op |-> "DestroyGLTextures"]
    /\ UNCHANGED <<m_pShaderManager, m_loadedTextures, m_objectMaterials,
                   glActiveTexture, glTextureUnits, shader, drawn, lastAppearance,
                   faulted>>

RECURSIVE FindTextureIndexFrom(_, _)
\* the while loop shared by FindTextureID and FindTextureSlot: the index at
\* which bFound becomes true, or m_loadedTextures when the loop runs out
FindTextureIndexFrom(index, tag) ==
    IF index < m_loadedTextures
    THEN IF m_textureIDs[index].tag = tag
         THEN index
         ELSE FindTextureIndexFrom(index + 1, tag)
    ELSE m_loadedTextures

RECURSIVE LastTextureIndexFrom(_, _, _)
LastTextureIndexFrom(index, tag, found) ==
    IF index < m_loadedTextures
    THEN LastTextureIndexFrom(index + 1, tag,
                              IF m_textureIDs[index].tag = tag THEN index ELSE found)
    ELSE found

FindTextureID_LastMatch(tag) ==
    LET index == LastTextureIndexFrom(0, tag, m_loadedTextures)
    IN  IF index < m_loadedTextures THEN m_textureIDs[index].ID ELSE -1

FindTextureID(tag) ==
    LET index == FindTextureIndexFrom(0, tag)
    IN  IF index < m_loadedTextures THEN m_textureIDs[index].ID ELSE -1

FindTextureSlot_LastMatch(tag) ==
    LET index == LastTextureIndexFrom(0, tag, m_loadedTextures)
    IN  IF index < m_loadedTextures THEN index ELSE -1

\* the position counted from one
FindTextureSlot_OneBased(tag) ==
    LET index == FindTextureIndexFrom(0, tag)
    IN  IF index < m_loadedTextures THEN index + 1 ELSE -1

FindTextureSlot(tag) ==
    LET index == FindTextureIndexFrom(0, tag)
    IN  IF index < m_loadedTextures THEN index ELSE -1

FindTextureIDCall(tag) ==
    /\ ~faulted
    /\ lastCall' = [op |-> "FindTextureID", tag |-> tag, ret |-> FindTextureID(tag)]
    /\ UNCHANGED <<m_pShaderManager, m_objectMaterials, textureVars, channelVars, faulted>>

FindTextureSlotCall(tag) ==
    /\ ~faulted
    /\ lastCall' = [op |-> "FindTextureSlot", tag |-> tag, ret |-> FindTextureSlot(tag)]
    /\ UNCHANGED <<m_pShaderManager, m_objectMaterials, textureVars, channelVars, faulted>>

-----------------------------------------------------------------------------
(* The material registry *)

Material(tag, diffuseColor, specularColor, shininess) ==
    [tag |-> tag, diffuseColor |-> diffuseColor, specularColor |-> specularColor,
     shininess |-> shininess]

\* the six materials of DefineObjectMaterials, in the order they are pushed
SceneMaterials ==
    [i \in 0 .. 5 |->
        CASE i = 0 -> Material("pacifier_material", <<100, 85, 20>>, <<80, 70, 30>>, 3200)
          [] i = 1 -> Material("floor_material", <<70, 70, 70>>, <<30, 30, 30>>, 200)
          [] i = 2 -> Material("glass", <<20, 60, 20>>, <<100, 100, 100>>, 12800)
          [] i = 3 -> Material("metal_lid_material", <<10, 30, 10>>, <<50, 50, 50>>, 6400)
          [] i = 4 -> Material("plastic_bottle_material", <<95, 85, 90>>, <<40, 40, 40>>, 500)
          [] OTHER -> Material("brown_glass_material", <<50, 30, 10>>, <<30, 30, 30>>, 12800)]

\* materials pushed one at a time: two of the scene's and a second "glass"
\* that carries other values
MaterialInputs ==
    {SceneMaterials[1], SceneMaterials[2],
     Material("glass", <<50, 30, 10>>, <<30, 30, 30>>, 12800)}

MaterialTags == {"floor_material", "glass", "steel"}

\* what the caller of FindMaterial may hold in the material it passes
CallerMaterials ==
    {Material("", <<0, 0, 0>>, <<0, 0, 0>>, 0),
     Material("caller", <<1, 2, 3>>, <<4, 5, 6>>, 7)}

\* OBJECT_MATERIAL material; the string is constructed empty, the vectors and
\* the float hold whatever the stack held: zeros, a material staged by an
\* earlier call, or anything else
IndeterminateMaterials ==
    {Material("", <<0, 0, 0>>, <<0, 0, 0>>, 0),
     Material("", <<20, 60, 20>>, <<100, 100, 100>>, 12800),
     Material("", <<-7, 11, 13>>, <<17, -19, 23>>, -29)}

RegisterMaterial(material) ==
    /\ ~faulted
    /\ m_objectMaterials' = push_back(m_objectMaterials, material)
    /\ lastCall' = [op |-> "push_back", tag |-> material.tag]
    /\ UNCHANGED <<m_pShaderManager, textureVars, channelVars, faulted>>

RECURSIVE PushAll(_, _, _)
PushAll(registry, materials, i) ==
    IF i < ArrayLen(materials)
    THEN PushAll(push_back(registry, materials[i]), materials, i + 1)
    ELSE registry

\* the last material is never pushed
DefineObjectMaterials_NoBrownGlass ==
    /\ ~faulted
    /\ m_objectMaterials' =
          PushAll(m_objectMaterials, [i \in 0 .. 4 |-> SceneMaterials[i]], 0)
    /\ lastCall' = [op |-> "DefineObjectMaterials"]
    /\ UNCHANGED <<m_pShaderManager, textureVars, channelVars, faulted>>

DefineObjectMaterials ==
    /\ ~faulted
    /\ m_objectMaterials' = PushAll(m_objectMaterials, SceneMaterials, 0)
    /\ lastCall' = [op |-> "DefineObjectMaterials"]
    /\ UNCHANGED <<m_pShaderManager, textureVars, channelVars, faulted>>

CopyMaterial(material, entry) ==
    [material EXCEPT !.diffuseColor = entry.diffuseColor,
                     !.specularColor = entry.specularColor,
                     !.shininess = entry.shininess]

RECURSIVE FindMaterialFrom(_, _, _)
\* the while loop of FindMaterial: the material argument after the loop
FindMaterialFrom(index, tag, material) ==
    IF index < ArrayLen(m_objectMaterials)
    THEN IF m_objectMaterials[index].tag = tag
         THEN CopyMaterial(material, m_objectMaterials[index])
         ELSE FindMaterialFrom(index + 1, tag, material)
    ELSE material

RECURSIVE LastMaterialFrom(_, _, _)
LastMaterialFrom(index, tag, material) ==
    IF index < ArrayLen(m_objectMaterials)
    THEN LastMaterialFrom(index + 1, tag,
                          IF m_objectMaterials[index].tag = tag
                          THEN CopyMaterial(material, m_objectMaterials[index])
                          ELSE material)
    ELSE material

FindMaterial_LastMatch(tag, material) ==
    IF ArrayLen(m_objectMaterials) = 0
    THEN [bReturn |-> FALSE, material |-> material]
    ELSE [bReturn |-> TRUE, material |-> LastMaterialFrom(0, tag, material)]

FindMaterial_ReturnsFound(tag, material) ==
    IF ArrayLen(m_objectMaterials) = 0
    THEN [bReturn |-> FALSE, material |-> material]
    ELSE [bReturn |-> \E i \in DOMAIN m_objectMaterials : m_objectMaterials[i].tag = tag,
          material |-> FindMaterialFrom(0, tag, material)]

FindMaterial(tag, material) ==
    IF ArrayLen(m_objectMaterials) = 0
    THEN [bReturn |-> FALSE, material |-> material]
    ELSE [bReturn |-> TRUE, material |-> FindMaterialFrom(0, tag, material)]

FindMaterialCall(tag, material) ==
    LET found == FindMaterial(tag, material)
    IN  /\ ~faulted
        /\ lastCall' = [op |-> "FindMaterial", tag |-> tag, passed |-> material,
                        ret |-> found.bReturn, material |-> found.material]
        /\ UNCHANGED <<m_pShaderManager, m_objectMaterials, textureVars, channelVars,
                       faulted>>

-----------------------------------------------------------------------------
(* The shader state channel *)

\* one call of a setter starts a fresh log of the uniforms it writes
Begin(sh) == [sh EXCEPT !.log = <<>>]

\* ShaderManager::set...Value(name, value)
setValue(sh, name, value) ==
    [values |-> [sh.values EXCEPT ![name] = value], log |-> Append(sh.log, name)]

Colors == {<<100, 100, 100, 100>>, <<0, 0, 0, 100>>}

UVScales == {<<30, 30>>, <<100, 100>>}

SetShaderColorUniforms_KeepsFlag(sh, currentColor) ==
    setValue(sh, "objectColor", currentColor)

SetShaderColorUniforms(sh, currentColor) ==
    setValue(setValue(sh, "bUseTexture", 0), "objectColor", currentColor)

SetShaderColor(currentColor) ==
    /\ ~faulted
    /\ shader' = IF m_pShaderManager # NULL
                 THEN SetShaderColorUniforms(Begin(shader), currentColor)
                 ELSE Begin(shader)
    /\ lastAppearance' = "color"
    /\ lastCall' = [op |-> "SetShaderColor", color |-> currentColor]
    /\ UNCHANGED <<m_pShaderManager, m_objectMaterials, textureVars, drawn, faulted>>

\* an unknown tag leaves the channel alone
SetShaderTextureUniforms_SkipsUnknown(sh, textureTag) ==
    IF FindTextureSlot(textureTag) = -1
    THEN sh
    ELSE setValue(setValue(sh, "bUseTexture", 1), "objectTexture",
                  FindTextureSlot(textureTag))

SetShaderTextureUniforms(sh, textureTag) ==
    setValue(setValue(sh, "bUseTexture", 1), "objectTexture", FindTextureSlot(textureTag))

SetShaderTexture(textureTag) ==
    /\ ~faulted
    /\ shader' = IF m_pShaderManager # NULL
                 THEN SetShaderTextureUniforms(Begin(shader), textureTag)
                 ELSE Begin(shader)
    /\ lastAppearance' = "texture"
    /\ lastCall' = [op |-> "SetShaderTexture", tag |-> textureTag]
    /\ UNCHANGED <<m_pShaderManager, m_objectMaterials, textureVars, drawn, faulted>>

SetTextureUVScale(uv) ==
    /\ ~faulted
    /\ shader' = IF m_pShaderManager # NULL
                 THEN setValue(Begin(shader), "UVscale", uv)
                 ELSE Begin(shader)
    /\ lastCall' = [op |-> "SetTextureUVScale", uv |-> uv]
    /\ UNCHANGED <<m_pShaderManager, m_objectMaterials, textureVars, drawn,
                   lastAppearance, faulted>>

SetShaderMaterialUniforms_NoShininess(sh, material) ==
    setValue(setValue(sh,
        "material.diffuseColor", material.diffuseColor),
        "material.specularColor", material.specularColor)

SetShaderMaterialUniforms(sh, material) ==
    setValue(setValue(setValue(sh,
        "material.diffuseColor", material.diffuseColor),
        "material.specularColor", material.specularColor),
        "material.shininess", material.shininess)

\* the local material is declared without an initial value and handed to
\* FindMaterial; m_pShaderManager is used without the NULL test of the
\* other setters
SetShaderMaterial(materialTag) ==
    /\ ~faulted
    /\ IF ArrayLen(m_objectMaterials) > 0
       THEN \E material \in IndeterminateMaterials :
               LET found == FindMaterial(materialTag, material)
               IN  /\ lastCall' = [op |-> "SetShaderMaterial", tag |-> materialTag,
                                   local |-> material]
                   /\ IF found.bReturn
                      THEN IF m_pShaderManager # NULL
                           THEN /\ shader' = SetShaderMaterialUniforms(Begin(shader),
                                                                       found.material)
                                /\ UNCHANGED faulted
                           ELSE /\ shader' = Begin(shader)
                                /\ faulted' \in BOOLEAN
                      ELSE /\ shader' = Begin(shader)
                           /\ UNCHANGED faulted
       ELSE /\ lastCall' = [op |-> "SetShaderMaterial", tag |-> materialTag]
            /\ shader' = Begin(shader)
            /\ UNCHANGED faulted
    /\ UNCHANGED <<m_pShaderManager, m_objectMaterials, textureVars, drawn,
                   lastAppearance>>

\* m_basicMeshes->Draw...Mesh(): the draw consumes the staged uniforms
DrawMesh ==
    /\ ~faulted
    /\ drawn' = [issued |-> TRUE, values |-> shader.values, appearance |-> lastAppearance]
    /\ lastCall' = [op |-> "DrawMesh"]
    /\ UNCHANGED <<m_pShaderManager, m_objectMaterials, textureVars, shader,
                   lastAppearance, faulted>>

-----------------------------------------------------------------------------
(* The transform composer.  Lengths, matrix entries, sines and cosines are  *)
(* in thousandths; an angle in radians is in milliradians.  Every product  *)
(* is rounded to the thousandth, as a float product is rounded.            *)

Rounded(x) == (x + 500) \div 1000

\* glm::radians(degrees)
glm_radians(degrees) == (degrees * 174533 + 5000) \div 10000

\* cos and sin of the angles the scene and the checks use
\* (degrees -90, -30, -15, 0, 30, 45, 55, 90, 100, 180, 225, 270, 315, 320, 325)
cos(radians) ==
    CASE radians = -1571 -> 0
      [] radians = -524 -> 866
      [] radians = -262 -> 966
      [] radians = 0 -> 1000
      [] radians = 524 -> 866
      [] radians = 785 -> 707
      [] radians = 960 -> 574
      [] radians = 1571 -> 0
      [] radians = 1745 -> -174
      [] radians = 3142 -> -1000
      [] radians = 3927 -> -707
      [] radians = 4712 -> 0
      [] radians = 5498 -> 707
      [] radians = 5585 -> 766
      [] radians = 5672 -> 819

sin(radians) ==
    CASE radians = -1571 -> -1000
      [] radians = -524 -> -500
      [] radians = -262 -> -259
      [] radians = 0 -> 0
      [] radians = 524 -> 500
      [] radians = 785 -> 707
      [] radians = 960 -> 819
      [] radians = 1571 -> 1000
      [] radians = 1745 -> 985
      [] radians = 3142 -> 0
      [] radians = 3927 -> -707
      [] radians = 4712 -> -1000
      [] radians = 5498 -> -707
      [] radians = 5585 -> -643
      [] radians = 5672 -> -574

Mat4(r1, r2, r3, r4) == <<r1, r2, r3, r4>>

\* the product of two 4x4 matrices
MatMul(A, B) ==
    CHOOSE product \in
        { [r \in 1 .. 4 |->
              [c \in 1 .. 4 |->
                  Rounded(a[r][1] * b[1][c] + a[r][2] * b[2][c]
                          + a[r][3] * b[3][c] + a[r][4] * b[4][c])]] :
          a \in {A}, b \in {B} } : TRUE

\* the image of the point p under M
MatApply(M, p) ==
    [r \in 1 .. 3 |->
        Rounded(M[r][1] * p[1] + M[r][2] * p[2] + M[r][3] * p[3] + M[r][4] * 1000)]

\* glm::scale(v)
glm_scale(v) ==
    Mat4(<<v[1], 0, 0, 0>>,
         <<0, v[2], 0, 0>>,
         <<0, 0, v[3], 0>>,
         <<0, 0, 0, 1000>>)

\* glm::translate(v)
glm_translate(v) ==
    Mat4(<<1000, 0, 0, v[1]>>,
         <<0, 1000, 0, v[2]>>,
         <<0, 0, 1000, v[3]>>,
         <<0, 0, 0, 1000>>)

\* glm::rotate(angle, axis) for the three coordinate axes
glm_rotate(angle, axis) ==
    LET c == cos(angle)
        s == sin(angle)
    IN  CASE axis = <<1000, 0, 0>> ->
                Mat4(<<1000, 0, 0, 0>>,
                     <<0, c, -s, 0>>,
                     <<0, s, c, 0>>,
                     <<0, 0, 0, 1000>>)
          [] axis = <<0, 1000, 0>> ->
                Mat4(<<c, 0, s, 0>>,
                     <<0, 1000, 0, 0>>,
                     <<-s, 0, c, 0>>,
                     <<0, 0, 0, 1000>>)
          [] axis = <<0, 0, 1000>> ->
                Mat4(<<c, -s, 0, 0>>,
                     <<s, c, 0, 0>>,
                     <<0, 0, 1000, 0>>,
                     <<0, 0, 0, 1000>>)

RotationX(degrees) == glm_rotate(glm_radians(degrees), <<1000, 0, 0>>)
RotationY(degrees) == glm_rotate(glm_radians(degrees), <<0, 1000, 0>>)
RotationZ(degrees) == glm_rotate(glm_radians(degrees), <<0, 0, 1000>>)

\* the rotations multiplied in the order X, Y, Z instead of Z, Y, X
ComposeTransform_RotationsSwapped(scaleXYZ, XrotationDegrees, YrotationDegrees, ZrotationDegrees, positionXYZ) ==
    LET scale == glm_scale(scaleXYZ)
        rotationX == RotationX(XrotationDegrees)
        rotationY == RotationY(YrotationDegrees)
        rotationZ == RotationZ(ZrotationDegrees)
        translation == glm_translate(positionXYZ)
        product1 == MatMul(translation, rotationX)
        product2 == MatMul(product1, rotationY)
        product3 == MatMul(product2, rotationZ)
        product4 == MatMul(product3, scale)
    IN  product4

\* the scale applied after the rotations and the translation
ComposeTransform_ScaleLast(scaleXYZ, XrotationDegrees, YrotationDegrees, ZrotationDegrees, positionXYZ) ==
    LET scale == glm_scale(scaleXYZ)
        rotationX == RotationX(XrotationDegrees)
        rotationY == RotationY(YrotationDegrees)
        rotationZ == RotationZ(ZrotationDegrees)
        translation == glm_translate(positionXYZ)
        product1 == MatMul(scale, translation)
        product2 == MatMul(product1, rotationZ)
        product3 == MatMul(product2, rotationY)
        product4 == MatMul(product3, rotationX)
    IN  product4

\* the translation left out of the product
ComposeTransform_NoTranslation(scaleXYZ, XrotationDegrees, YrotationDegrees, ZrotationDegrees, positionXYZ) ==
    LET scale == glm_scale(scaleXYZ)
        rotationX == RotationX(XrotationDegrees)
        rotationY == RotationY(YrotationDegrees)
        rotationZ == RotationZ(ZrotationDegrees)
        translation == glm_translate(positionXYZ)
        product1 == MatMul(rotationZ, rotationY)
        product2 == MatMul(product1, rotationX)
        product3 == MatMul(product2, scale)
    IN  product3

\* modelView = translation * rotationZ * rotationY * rotationX * scale
ComposeTransform(scaleXYZ, XrotationDegrees, YrotationDegrees, ZrotationDegrees, positionXYZ) ==
    LET scale == glm_scale(scaleXYZ)
        rotationX == RotationX(XrotationDegrees)
        rotationY == RotationY(YrotationDegrees)
        rotationZ == RotationZ(ZrotationDegrees)
        translation == glm_translate(positionXYZ)
        product1 == MatMul(translation, rotationZ)
        product2 == MatMul(product1, rotationY)
        product3 == MatMul(product2, rotationX)
        product4 == MatMul(product3, scale)
    IN  product4

SetTransformations(scaleXYZ, XrotationDegrees, YrotationDegrees, ZrotationDegrees, positionXYZ) ==
    /\ ~faulted
    /\ shader' = IF m_pShaderManager # NULL
                 THEN setValue(Begin(shader), "model",
                               ComposeTransform(scaleXYZ, XrotationDegrees,
                                                YrotationDegrees, ZrotationDegrees,
                                                positionXYZ))
                 ELSE Begin(shader)
    /\ lastCall' = [op |-> "SetTransformations", scale |-> scaleXYZ,
                    rotation |-> <<XrotationDegrees, YrotationDegrees,
                                   ZrotationDegrees>>,
                    position |-> positionXYZ]
    /\ UNCHANGED <<m_pShaderManager, m_objectMaterials, textureVars, drawn,
                   lastAppearance, faulted>>

\* inputs of the transform composer: rotations by quarter turns
QuarterTurnDegrees == {0, 90, 180, -90}

TransformScales == {<<0, 0, 0>>, <<1000, 1000, 1000>>, <<2000, 3000, 4000>>}

TransformPositions == {<<0, 0, 0>>, <<9000, 501, -4000>>}

-----------------------------------------------------------------------------
(* The state after construction *)

\* the uniforms of one point light slot
LightFields ==
    {"position", "ambient", "diffuse", "specular", "constant", "linear",
     "quadratic", "bActive"}

LightUniform(slot, field) ==
    CASE slot = 0 /\ field = "position" -> "pointLights[0].position"
      [] slot = 0 /\ field = "ambient" -> "pointLights[0].ambient"
      [] slot = 0 /\ field = "diffuse" -> "pointLights[0].diffuse"
      [] slot = 0 /\ field = "specular" -> "pointLights[0].specular"
      [] slot = 0 /\ field = "constant" -> "pointLights[0].constant"
      [] slot = 0 /\ field = "linear" -> "pointLights[0].linear"
      [] slot = 0 /\ field = "quadratic" -> "pointLights[0].quadratic"
      [] slot = 0 /\ field = "bActive" -> "pointLights[0].bActive"
      [] slot = 1 /\ field = "position" -> "pointLights[1].position"
      [] slot = 1 /\ field = "ambient" -> "pointLights[1].ambient"
      [] slot = 1 /\ field = "diffuse" -> "pointLights[1].diffuse"
      [] slot = 1 /\ field = "specular" -> "pointLights[1].specular"
      [] slot = 1 /\ field = "constant" -> "pointLights[1].constant"
      [] slot = 1 /\ field = "linear" -> "pointLights[1].linear"
      [] slot = 1 /\ field = "quadratic" -> "pointLights[1].quadratic"
      [] slot = 1 /\ field = "bActive" -> "pointLights[1].bActive"

LightUniformNames ==
    {"bUseLighting"} \cup {LightUniform(slot, field) : slot \in {0, 1}, field \in LightFields}

DrawUniformNames ==
    {"model", "bUseTexture", "objectColor", "objectTexture", "UVscale",
     "material.diffuseColor", "material.specularColor", "material.shininess"}

\* the uniforms the view manager writes
ViewUniformNames == {"view", "projection", "viewPosition"}

UniformNames == DrawUniformNames \cup LightUniformNames \cup ViewUniformNames

\* uniforms of a freshly linked program are zero
InitialUniforms ==
    [n \in UniformNames |->
        CASE n \in {"bUseTexture", "objectTexture", "material.shininess",
                    "bUseLighting"} -> 0
          [] n \in {LightUniform(slot, field) :
                       slot \in {0, 1},
                       field \in {"constant", "linear", "quadratic", "bActive"}} -> 0
          [] n = "objectColor" -> <<0, 0, 0, 0>>
          [] n = "UVscale" -> <<0, 0>>
          [] n = "model" -> glm_scale(<<0, 0, 0>>)
          [] OTHER -> <<0, 0, 0>>]

\* one light slot as SetupSceneLights writes it, in thousandths
SetLight(sh, slot, position, ambient, diffuse, specular, constant, linear, quadratic) ==
    LET s1 == setValue(sh, LightUniform(slot, "position"), position)
        s2 == setValue(s1, LightUniform(slot, "ambient"), <<ambient, ambient, ambient>>)
        s3 == setValue(s2, LightUniform(slot, "diffuse"), <<diffuse, diffuse, diffuse>>)
        s4 == setValue(s3, LightUniform(slot, "specular"), <<specular, specular, specular>>)
        s5 == setValue(s4, LightUniform(slot, "constant"), constant)
        s6 == setValue(s5, LightUniform(slot, "linear"), linear)
        s7 == setValue(s6, LightUniform(slot, "quadratic"), quadratic)
    IN  setValue(s7, LightUniform(slot, "bActive"), 1)

SetupSceneLightsUniforms(sh) ==
    SetLight(
        SetLight(setValue(sh, "bUseLighting", 1),
                 0, <<0, 70000, 0>>, 350, 650, 350, 1000, 75, 20),
        1, <<0, 2000, 30000>>, 200, 500, 250, 1000, 100, 30)

\* m_pShaderManager is used without a NULL test
SetupSceneLights ==
    /\ ~faulted
    /\ IF m_pShaderManager # NULL
       THEN /\ shader' = SetupSceneLightsUniforms(Begin(shader))
            /\ UNCHANGED faulted
       ELSE /\ shader' = Begin(shader)
            /\ faulted' \in BOOLEAN
    /\ lastCall' = [op |-> "SetupSceneLights"]
    /\ UNCHANGED <<m_pShaderManager, m_objectMaterials, textureVars, drawn,
                   lastAppearance>>

\* bookkeeping of a frame: the calls issued since the most recent draw, the
\* sub-assembly and frame that last wrote each uniform, what the most
\* recent draw found, and the shader state of a twin that receives the
\* calls of the frame after starting it from another draw state
NoUnit ==
    [frame |-> 1,
     calls |-> <<>>,
     writer |-> [n \in UniformNames |-> [assembly |-> "none", frame |-> 0]],
     atDraw |-> [issued |-> FALSE],
     twin |-> [values |-> InitialUniforms, log |-> <<>>]]

\* no sub-assembly method has been called on its own
NoRendering == [assembly |-> "none", number |-> 0]

WINDOW_WIDTH == 1000

WINDOW_HEIGHT == 800

\* pointer positions are doubles, here exact integers in 1/65536 pixel;
\* gLastX, gLastY, xOffset and yOffset are floats
FloatMantissaBits == 24

Abs(x) == IF x < 0 THEN -x ELSE x

\* the spacing of the floats around a value of magnitude a
RECURSIVE FloatSpacing(_, _)
FloatSpacing(a, spacing) ==
    IF a < spacing * 2 ^ FloatMantissaBits
    THEN spacing
    ELSE FloatSpacing(a, 2 * spacing)

\* double -> float: the nearest float, ties to the even mantissa
ToFloat(x) ==
    LET a == Abs(x)
        spacing == FloatSpacing(a, 1)
        q == a \div spacing
        r == a % spacing
        nearest == IF 2 * r > spacing \/ (2 * r = spacing /\ q % 2 = 1)
                   THEN (q + 1) * spacing
                   ELSE q * spacing
    IN  IF x < 0 THEN -nearest ELSE nearest

\* new Camera(): positions, directions and Zoom in thousandths; Yaw and Pitch
\* in tenths of 1/65536 degree, MouseSensitivity in tenths of a degree per
\* pixel, so that an offset in 1/65536 pixel times the sensitivity is an angle
Camera ==
    [Position |-> <<0, 0, 0>>, Front |-> <<0, 0, -1000>>, Up |-> <<0, 1000, 0>>,
     Right |-> <<1000, 0, 0>>,
     Zoom |-> 45000, MovementSpeed |-> 2500, Yaw |-> -900 * 65536, Pitch |-> 0,
     MouseSensitivity |-> 1]

\* SceneManager::SceneManager(pShaderManager), with the file-scope state of
\* the view manager as it is initialised
SceneManager(pShaderManager) ==
    /\ m_pShaderManager = pShaderManager
    /\ m_textureIDs = EmptyArray
    /\ m_loadedTextures = 0
    /\ m_objectMaterials = EmptyArray
    /\ glNextName = 1
    /\ glActiveTexture = 0
    /\ glTextureUnits = [u \in {0} |-> 0]
    /\ shader = [values |-> InitialUniforms, log |-> <<>>]
    /\ drawn = [issued |-> FALSE]
    /\ lastAppearance = "none"
    /\ lastCall = [op |-> "SceneManager"]
    /\ faulted = FALSE
    /\ pc = 1
    /\ unit = NoUnit
    /\ gLastX = ToFloat((WINDOW_WIDTH * 65536) \div 2)
    /\ gLastY = ToFloat((WINDOW_HEIGHT * 65536) \div 2)
    /\ gFirstMouse = TRUE
    /\ cameraSpeed = 1000
    /\ g_pCamera = [Camera EXCEPT !.Position = <<0, 15000, 20000>>,
                                  !.Front = <<0, -500, -2000>>,
                                  !.Up = <<0, 1000, 0>>,
                                  !.Zoom = 80000,
                                  !.MovementSpeed = 20000]
    /\ pointer = [samples |-> 0]
    /\ bOrthographicProjection = FALSE
    /\ gDeltaTime = 0
    /\ gLastFrame = 0
    /\ m_pWindow = [shouldClose |-> FALSE]
    /\ rendering = NoRendering

\* every image file of the scene is in place
Init == SceneManager("present") /\ unreadable = {}

\* a scene manager constructed without a shader manager
InitNull == SceneManager(NULL) /\ unreadable = {}

-----------------------------------------------------------------------------
(* The texture registry under arbitrary calls *)

NextTextures ==
    /\ UNCHANGED <<unreadable, renderVars, viewVars>>
    /\ \/ \E filename \in Files, tag \in Tags :
             /\ m_loadedTextures < MaxLoaded
             /\ glNextName <= MaxNames
             /\ CreateGLTexture(filename, tag)
       \/ BindGLTextures
       \/ /\ glNextName + m_loadedTextures <= MaxNames + 1
          /\ DestroyGLTextures
       \/ \E tag \in LookupTags : FindTextureIDCall(tag)
       \/ \E tag \in LookupTags : FindTextureSlotCall(tag)

SpecTextures == Init /\ [][NextTextures]_vars

\* the registry driven to and past the capacity of m_textureIDs
NextOverflow ==
    /\ UNCHANGED <<unreadable, renderVars, viewVars>>
    /\ \/ \E filename \in Files :
             /\ m_loadedTextures <= MaxTextureSlots
             /\ \/ filename \in LoadableFiles
                \/ glNextName - 1 - m_loadedTextures < MaxLeaked
             /\ CreateGLTexture(filename, "Floor")
       \/ BindGLTextures
       \/ \E tag \in {"Floor", "Wall"} : FindTextureSlotCall(tag)

SpecOverflow == Init /\ [][NextOverflow]_vars

\* the material registry, its lookup and the material setter
NextMaterials ==
    /\ UNCHANGED <<unreadable, renderVars, viewVars>>
    /\ \/ \E material \in MaterialInputs :
             /\ ArrayLen(m_objectMaterials) < MaxMaterials
             /\ RegisterMaterial(material)
       \/ /\ ArrayLen(m_objectMaterials) < MaxMaterials
          /\ DefineObjectMaterials
       \/ \E tag \in MaterialTags, material \in CallerMaterials : FindMaterialCall(tag, material)
       \/ \E tag \in MaterialTags : SetShaderMaterial(tag)

SpecMaterials == Init /\ [][NextMaterials]_vars

\* the appearance setters between draws, over a registry of a few textures
NextChannel ==
    /\ UNCHANGED <<unreadable, renderVars, viewVars>>
    /\ \/ \E filename \in LoadableFiles, tag \in Tags :
             /\ m_loadedTextures < MaxChannelTextures
             /\ CreateGLTexture(filename, tag)
       \/ \E color \in Colors : SetShaderColor(color)
       \/ \E tag \in LookupTags : SetShaderTexture(tag)
       \/ \E uv \in UVScales : SetTextureUVScale(uv)
       \/ DrawMesh

SpecChannel == Init /\ [][NextChannel]_vars

-----------------------------------------------------------------------------
(* Properties of the shader state channel *)

\* C1: with a shader manager present, the staged use-texture flag is on
\* exactly when the most recent of SetShaderColor / SetShaderTexture was
\* SetShaderTexture and off exactly when it was SetShaderColor, now and in
\* the state every draw consumed: the last setter before the draw wins.
LastAppearanceSetterWins ==
    /\ lastAppearance = "texture" => shader.values["bUseTexture"] = 1
    /\ lastAppearance = "color" => shader.values["bUseTexture"] = 0
    /\ (drawn.issued /\ drawn.appearance = "texture") => drawn.values["bUseTexture"] = 1
    /\ (drawn.issued /\ drawn.appearance = "color") => drawn.values["bUseTexture"] = 0

\* a draw with a flat colour, issued after a texture had been staged for an
\* earlier draw (the sampler uniform is written by SetShaderTexture alone)
ColorDrawnAfterTexture ==
    /\ drawn.issued
    /\ drawn.appearance = "color"
    /\ drawn.values["bUseTexture"] = 0
    /\ drawn.values["objectTexture"] = 1
    /\ drawn.values["objectColor"] = <<0, 0, 0, 100>>

-----------------------------------------------------------------------------
(* Properties of the texture registry *)

Registered == 0 .. m_loadedTextures - 1

\* the least index whose entry carries the tag, -1 when there is none
FirstIndexOf(tag) ==
    LET matches == {i \in Registered : m_textureIDs[i].tag = tag}
    IN  IF matches = {} THEN -1 ELSE CHOOSE i \in matches : \A j \in matches : i <= j

\* C2: after registrations followed by BindGLTextures, FindTextureSlot of
\* every registered entry's tag is the texture unit that entry's texture
\* was bound to.
SlotIsBoundUnit ==
    lastCall.op = "BindGLTextures" =>
        \A i \in Registered :
            /\ FindTextureSlot(m_textureIDs[i].tag) \in DOMAIN glTextureUnits
            /\ glTextureUnits[FindTextureSlot(m_textureIDs[i].tag)] = m_textureIDs[i].ID

\* C3: CreateGLTexture returns false and leaves the registry as it was when
\* the image cannot be decoded or has a channel count other than 3 or 4;
\* otherwise it returns true and appends exactly one entry, with the tag.
CreateGLTextureRegistersOrLeaves ==
    [][lastCall'.op = "CreateGLTexture" =>
         LET decoded == stbi_load(lastCall'.filename)
         IN  IF decoded.image /\ decoded.colorChannels \in {3, 4}
             THEN /\ lastCall'.ret = TRUE
                  /\ m_loadedTextures' = m_loadedTextures + 1
                  /\ \A i \in Registered : m_textureIDs'[i] = m_textureIDs[i]
                  /\ m_textureIDs'[m_loadedTextures].tag = lastCall'.tag
             ELSE /\ lastCall'.ret = FALSE
                  /\ m_loadedTextures' = m_loadedTextures
                  /\ m_textureIDs' = m_textureIDs]_vars

\* a one-channel image was refused while the registry held entries
UnsupportedImageRefused ==
    /\ lastCall.op = "CreateGLTexture"
    /\ stbi_load(lastCall.filename).image
    /\ stbi_load(lastCall.filename).colorChannels = 1
    /\ lastCall.ret = FALSE
    /\ m_loadedTextures = 2

\* C4: the registry never holds more than 16 entries.
RegistryWithinCapacity == m_loadedTextures <= MaxTextureSlots

\* C5: no two entries of the registry carry the same tag.
TagsUnique ==
    \A i, j \in Registered : m_textureIDs[i].tag = m_textureIDs[j].tag => i = j

\* C6: a registered entry keeps its tag and its handle through every later
\* operation, and the number of entries never decreases.
EntriesImmutable ==
    [][/\ m_loadedTextures' >= m_loadedTextures
       /\ \A i \in Registered : m_textureIDs'[i] = m_textureIDs[i]]_vars

\* C7: FindTextureID and FindTextureSlot return the handle, respectively the
\* index, of the first entry in registration order that carries the tag, and
\* -1 when no entry does.
FirstTextureMatchWins ==
    /\ lastCall.op = "FindTextureSlot" => lastCall.ret = FirstIndexOf(lastCall.tag)
    /\ lastCall.op = "FindTextureID" =>
          lastCall.ret = IF FirstIndexOf(lastCall.tag) = -1
                         THEN -1
                         ELSE m_textureIDs[FirstIndexOf(lastCall.tag)].ID

\* a slot lookup of a tag carried by entries 1 and 2, but not by entry 0
SecondOfThreeFound ==
    /\ lastCall.op = "FindTextureSlot"
    /\ m_loadedTextures = 3
    /\ m_textureIDs[0].tag # lastCall.tag
    /\ m_textureIDs[1].tag = lastCall.tag
    /\ m_textureIDs[2].tag = lastCall.tag
    /\ lastCall.ret = 1

-----------------------------------------------------------------------------
(* Properties of the material registry *)

MaterialIndices == DOMAIN m_objectMaterials

Matches(tag) == {i \in MaterialIndices : m_objectMaterials[i].tag = tag}

\* C8: FindMaterial returns false exactly when the material registry is
\* empty; with a material registered it returns true for every tag.
FindMaterialTrueUnlessEmpty ==
    lastCall.op = "FindMaterial" =>
        (lastCall.ret = FALSE <=> MaterialIndices = {})

\* a lookup of a tag no registered material carries, answered true
UnmatchedTagReportedFound ==
    /\ lastCall.op = "FindMaterial"
    /\ MaterialIndices # {}
    /\ Matches(lastCall.tag) = {}
    /\ lastCall.ret = TRUE

\* C9: FindMaterial copies the diffuse colour, the specular colour and the
\* shininess of the first registered material with the tag into the
\* caller's material; when no material has the tag the caller's material
\* is left exactly as it was passed.
FindMaterialCopiesFirstMatch ==
    lastCall.op = "FindMaterial" =>
        IF Matches(lastCall.tag) = {}
        THEN lastCall.material = lastCall.passed
        ELSE LET first == CHOOSE i \in Matches(lastCall.tag) :
                              \A j \in Matches(lastCall.tag) : i <= j
             IN  /\ lastCall.material.diffuseColor = m_objectMaterials[first].diffuseColor
                 /\ lastCall.material.specularColor = m_objectMaterials[first].specularColor
                 /\ lastCall.material.shininess = m_objectMaterials[first].shininess
                 /\ lastCall.material.tag = lastCall.passed.tag

\* a lookup of "glass" with two materials of that tag and different values
\* registered: the earlier one's values came back
ShadowedMaterialNotReturned ==
    /\ lastCall.op = "FindMaterial"
    /\ \E i, j \in Matches(lastCall.tag) :
          /\ i < j
          /\ m_objectMaterials[i].diffuseColor # m_objectMaterials[j].diffuseColor
          /\ \A k \in Matches(lastCall.tag) : i <= k
          /\ lastCall.material.diffuseColor = m_objectMaterials[i].diffuseColor

\* C10: SetShaderMaterial changes no staged value when the material
\* registry is empty; with a material registered it writes the three
\* material uniforms for every tag, and for a tag no material carries the
\* values written are those of the local material the lookup never filled.
SetShaderMaterialWrites ==
    [][lastCall'.op = "SetShaderMaterial" =>
         IF MaterialIndices = {}
         THEN /\ shader'.values = shader.values
              /\ shader'.log = <<>>
         ELSE /\ shader'.log = <<"material.diffuseColor", "material.specularColor",
                                 "material.shininess">>
              /\ \A n \in UniformNames \ {"material.diffuseColor",
                                          "material.specularColor",
                                          "material.shininess"} :
                    shader'.values[n] = shader.values[n]
              /\ Matches(lastCall'.tag) = {} =>
                    /\ shader'.values["material.diffuseColor"] =
                          lastCall'.local.diffuseColor
                    /\ shader'.values["material.specularColor"] =
                          lastCall'.local.specularColor
                    /\ shader'.values["material.shininess"] =
                          lastCall'.local.shininess]_vars

\* "steel" was never registered, "glass" was: the uniforms hold values that
\* are no registered material's
UnfilledMaterialStaged ==
    /\ lastCall.op = "SetShaderMaterial"
    /\ lastCall.tag = "steel"
    /\ MaterialIndices # {}
    /\ shader.log = <<"material.diffuseColor", "material.specularColor",
                      "material.shininess">>
    /\ shader.values["material.diffuseColor"] = <<-7, 11, 13>>
    /\ \A i \in MaterialIndices :
          m_objectMaterials[i].diffuseColor # shader.values["material.diffuseColor"]


-----------------------------------------------------------------------------
(* The five setters without a shader manager *)

NextNull ==
    /\ UNCHANGED <<unreadable, renderVars, viewVars>>
    /\ \/ \E material \in MaterialInputs :
             /\ ArrayLen(m_objectMaterials) < MaxMaterials
             /\ RegisterMaterial(material)
       \/ \E scaleXYZ \in TransformScales, positionXYZ \in TransformPositions,
             X \in QuarterTurnDegrees :
             SetTransformations(scaleXYZ, X, 0, 0, positionXYZ)
       \/ \E color \in Colors : SetShaderColor(color)
       \/ \E tag \in LookupTags : SetShaderTexture(tag)
       \/ \E uv \in UVScales : SetTextureUVScale(uv)
       \/ \E tag \in MaterialTags : SetShaderMaterial(tag)

SpecNull == InitNull /\ [][NextNull]_vars

\* C11: when the shader manager is NULL every setter is a no-op: nothing is
\* staged and no error is raised, whatever the registries hold
NullSettersAreNoOps ==
    m_pShaderManager = NULL =>
        /\ ~faulted
        /\ shader.values = InitialUniforms
        /\ shader.log = <<>>

\* C12: SetShaderTexture with a tag no entry carries raises no error, turns
\* the use-texture flag on and stages -1 as the sampler slot
UnregisteredTagStagesMinusOne ==
    (/\ lastCall.op = "SetShaderTexture"
     /\ m_pShaderManager # NULL
     /\ FirstIndexOf(lastCall.tag) = -1)
        => /\ ~faulted
           /\ shader.values["bUseTexture"] = 1
           /\ shader.values["objectTexture"] = -1
           /\ shader.log = <<"bUseTexture", "objectTexture">>

\* C12 witness: "Wall" looked up in a registry that holds other tags, after a
\* colour had turned the flag off
UnknownTagAfterColor ==
    /\ lastCall.op = "SetShaderTexture"
    /\ lastCall.tag = "Wall"
    /\ m_loadedTextures > 0
    /\ shader.values["objectColor"] # <<0, 0, 0, 0>>
    /\ shader.values["objectTexture"] = -1

-----------------------------------------------------------------------------
(* The transform composer under quarter-turn rotations *)

NextTransform ==
    /\ UNCHANGED <<unreadable, renderVars, viewVars>>
    /\ \E scaleXYZ \in TransformScales, positionXYZ \in TransformPositions,
          X \in QuarterTurnDegrees, Y \in QuarterTurnDegrees, Z \in QuarterTurnDegrees :
          SetTransformations(scaleXYZ, X, Y, Z, positionXYZ)

SpecTransform == Init /\ [][NextTransform]_vars


\* the matrix staged by the last SetTransformations call
StagedModel == shader.values["model"]

TransformStaged ==
    /\ lastCall.op = "SetTransformations"
    /\ shader.log = <<"model">>

\* reference composition on points: a quarter turn permutes and negates
\* coordinates
ScalePoint(p, s) ==
    <<(p[1] * s[1]) \div 1000, (p[2] * s[2]) \div 1000, (p[3] * s[3]) \div 1000>>

TurnAboutX(p, degrees) ==
    CASE degrees = 0 -> p
      [] degrees = 90 -> <<p[1], -p[3], p[2]>>
      [] degrees = 180 -> <<p[1], -p[2], -p[3]>>
      [] degrees = -90 -> <<p[1], p[3], -p[2]>>

TurnAboutY(p, degrees) ==
    CASE degrees = 0 -> p
      [] degrees = 90 -> <<p[3], p[2], -p[1]>>
      [] degrees = 180 -> <<-p[1], p[2], -p[3]>>
      [] degrees = -90 -> <<-p[3], p[2], p[1]>>

TurnAboutZ(p, degrees) ==
    CASE degrees = 0 -> p
      [] degrees = 90 -> <<-p[2], p[1], p[3]>>
      [] degrees = 180 -> <<-p[1], -p[2], p[3]>>
      [] degrees = -90 -> <<p[2], -p[1], p[3]>>

MovePoint(p, v) == <<p[1] + v[1], p[2] + v[2], p[3] + v[3]>>

ReferenceImage(p, call) ==
    MovePoint(
        TurnAboutZ(
            TurnAboutY(
                TurnAboutX(ScalePoint(p, call.scale), call.rotation[1]),
                call.rotation[2]),
            call.rotation[3]),
        call.position)

ProbePoints ==
    {<<0, 0, 0>>, <<1000, 0, 0>>, <<0, 1000, 0>>, <<0, 0, 1000>>,
     <<1000, 2000, 3000>>}

\* C13: the matrix SetTransformations stages maps every point to the point
\* obtained by scaling it, turning it about X, then Y, then Z, and then
\* translating it (quarter-turn rotations, exact integer matrices)
ComposedInReferenceOrder ==
    TransformStaged =>
        /\ StagedModel[4] = <<0, 0, 0, 1000>>
        /\ \A p \in ProbePoints :
              MatApply(StagedModel, p) = ReferenceImage(p, lastCall)

\* C13 witness: a non-uniform scale, a turn about each axis and a translation
ThreeTurnsComposed ==
    /\ TransformStaged
    /\ lastCall.scale = <<2000, 3000, 4000>>
    /\ lastCall.rotation = <<90, 180, -90>>
    /\ lastCall.position = <<9000, 501, -4000>>

\* the pure translation by v, written out entry by entry
TranslationOnly(v) ==
    [r \in 1 .. 4 |->
        [c \in 1 .. 4 |->
            IF r = c THEN 1000 ELSE IF c = 4 THEN v[r] ELSE 0]]

\* C14: with unit scale and no rotation the staged matrix is exactly the
\* translation by the position
UnitInputsGiveTranslation ==
    (/\ TransformStaged
     /\ lastCall.scale = <<1000, 1000, 1000>>
     /\ lastCall.rotation = <<0, 0, 0>>)
        => StagedModel = TranslationOnly(lastCall.position)

\* C14 witness: unit scale, no rotation, a non-zero position
TranslationStaged ==
    /\ TransformStaged
    /\ lastCall.scale = <<1000, 1000, 1000>>
    /\ lastCall.rotation = <<0, 0, 0>>
    /\ lastCall.position = <<9000, 501, -4000>>

NonZeroRotations(call) == Cardinality({i \in 1 .. 3 : call.rotation[i] # 0})

HalfTurns(call) == Cardinality({i \in 1 .. 3 : call.rotation[i] = 180})

SwappedModel(call) ==
    ComposeTransform_RotationsSwapped(call.scale, call.rotation[1],
                                      call.rotation[2], call.rotation[3],
                                      call.position)

-----------------------------------------------------------------------------
(* The view manager: pointer samples *)

\* Camera::ProcessMouseMovement(xoffset, yoffset)
ProcessMouseMovement(camera, xoffset, yoffset) ==
    LET yaw == camera.Yaw + xoffset * camera.MouseSensitivity
        pitch == camera.Pitch + yoffset * camera.MouseSensitivity
        limit == 900 * 65536
    IN  [camera EXCEPT !.Yaw = yaw,
                       !.Pitch = IF pitch > limit THEN limit
                                 ELSE IF pitch < -limit THEN -limit
                                 ELSE pitch]

\* the offsets the callback computes against the stored previous sample
PointerOffsets(lastX, lastY, xMousePos, yMousePos) ==
    [xOffset |-> ToFloat(xMousePos - lastX), yOffset |-> ToFloat(lastY - yMousePos)]

Mouse_Position_Callback(xMousePos, yMousePos) ==
    LET lastX == IF gFirstMouse THEN ToFloat(xMousePos) ELSE gLastX
        lastY == IF gFirstMouse THEN ToFloat(yMousePos) ELSE gLastY
        offsets == PointerOffsets(lastX, lastY, xMousePos, yMousePos)
    IN  /\ gFirstMouse' = FALSE
        /\ gLastX' = ToFloat(xMousePos)
        /\ gLastY' = ToFloat(yMousePos)
        /\ g_pCamera' = ProcessMouseMovement(g_pCamera, offsets.xOffset, offsets.yOffset)
        /\ pointer' = IF pointer.samples = 0
                      THEN [samples |-> 1, x |-> xMousePos, y |-> yMousePos,
                            firstX |-> xMousePos, firstY |-> yMousePos,
                            sumX |-> 0, sumY |-> 0]
                      ELSE [pointer EXCEPT !.samples = @ + 1,
                                           !.x = xMousePos, !.y = yMousePos,
                                           !.sumX = @ + offsets.xOffset,
                                           !.sumY = @ + offsets.yOffset]
        /\ lastCall' = [op |-> "Mouse_Position_Callback",
                        x |-> xMousePos, y |-> yMousePos,
                        first |-> gFirstMouse,
                        previous |-> pointer,
                        xOffset |-> offsets.xOffset, yOffset |-> offsets.yOffset,
                        camera |-> g_pCamera]
        /\ UNCHANGED <<m_pShaderManager, m_objectMaterials, textureVars, channelVars,
                       faulted, renderVars, cameraSpeed, bOrthographicProjection,
                       gDeltaTime, gLastFrame, m_pWindow, unreadable>>

MaxSamples == 4

\* 400, 400.3 and 406.5 pixels
PointerXs == {400 * 65536, 26234061, 26640384}

\* 300 and 300.1 pixels
PointerYs == {300 * 65536, 19667354}

NextPointer ==
    \E xMousePos \in PointerXs, yMousePos \in PointerYs :
        /\ pointer.samples < MaxSamples
        /\ Mouse_Position_Callback(xMousePos, yMousePos)

SpecPointer == Init /\ [][NextPointer]_vars

\* C16: the very first pointer sample is only captured as the baseline: the
\* offsets handed to the camera are (0, 0) and the camera is as it was before
FirstSampleIsBaseline ==
    (lastCall.op = "Mouse_Position_Callback" /\ lastCall.first)
        => /\ lastCall.xOffset = 0
           /\ lastCall.yOffset = 0
           /\ g_pCamera = lastCall.camera

\* C18: for every sample after the first, dx is x minus the previous x, dy
\* is the previous y minus y, the sample becomes the previous one, and the
\* offsets so far sum to the displacement from the first sample
OffsetsAreSampleDifferences ==
    (lastCall.op = "Mouse_Position_Callback" /\ ~lastCall.first)
        => /\ lastCall.xOffset = lastCall.x - lastCall.previous.x
           /\ lastCall.yOffset = lastCall.previous.y - lastCall.y
           /\ gLastX = lastCall.x
           /\ gLastY = lastCall.y
           /\ pointer.sumX = pointer.x - pointer.firstX
           /\ pointer.sumY = pointer.firstY - pointer.y


-----------------------------------------------------------------------------
(* The view manager: the scroll wheel and the camera speed *)

\* the two clamps left out
ClampSpeed_Unclamped(speed) == speed

\* the two clamps of cameraSpeed, in thousandths
ClampSpeed(speed) ==
    LET raised == IF speed < 100 THEN 100 ELSE speed
    IN  IF raised > 10000 THEN 10000 ELSE raised

\* cameraSpeed *= 1.1f, cameraSpeed *= 0.9f, or neither
ScaledSpeed(speed, yScrollDistance) ==
    IF yScrollDistance > 0
    THEN Rounded(speed * 1100)
    ELSE IF yScrollDistance < 0
         THEN Rounded(speed * 900)
         ELSE speed

Mouse_Scroll_Wheel_Callback(yScrollDistance) ==
    /\ cameraSpeed' = ClampSpeed(ScaledSpeed(cameraSpeed, yScrollDistance))
    /\ lastCall' = [op |-> "Mouse_Scroll_Wheel_Callback", y |-> yScrollDistance,
                    speed |-> cameraSpeed]
    /\ UNCHANGED <<m_pShaderManager, m_objectMaterials, textureVars, channelVars,
                   faulted, renderVars, gLastX, gLastY, gFirstMouse, g_pCamera,
                   pointer, bOrthographicProjection, gDeltaTime, gLastFrame,
                   m_pWindow, unreadable>>

\* scroll distances, in thousandths of a tick
ScrollDistances == {-1000, 0, 250, 1000}

NextScroll ==
    \E yScrollDistance \in ScrollDistances : Mouse_Scroll_Wheel_Callback(yScrollDistance)

SpecScroll == Init /\ [][NextScroll]_vars

\* C17: every scroll tick leaves the speed within [0.1, 10.0]; a positive
\* tick multiplies it by 1.1 and a negative one by 0.9 (to the nearest
\* thousandth) unless the result is clamped to the nearer limit
ScrollScalesAndClamps ==
    [][lastCall'.op = "Mouse_Scroll_Wheel_Callback" =>
          /\ cameraSpeed' >= 100
          /\ cameraSpeed' <= 10000
          /\ lastCall'.y > 0 =>
                \/ Abs(10 * cameraSpeed' - 11 * cameraSpeed) <= 5
                \/ cameraSpeed' = 10000 /\ 11 * cameraSpeed > 10 * 10000
          /\ lastCall'.y < 0 =>
                \/ Abs(10 * cameraSpeed' - 9 * cameraSpeed) <= 5
                \/ cameraSpeed' = 100 /\ 9 * cameraSpeed < 10 * 100
          /\ lastCall'.y = 0 => cameraSpeed' = cameraSpeed]_vars

\* C17 witness: a tick up from just below the upper limit is clamped to 10.0
SpeedClampedAtTop ==
    /\ lastCall.op = "Mouse_Scroll_Wheel_Callback"
    /\ lastCall.y > 0
    /\ lastCall.speed < 10000
    /\ lastCall.speed * 11 > 10 * 10000
    /\ cameraSpeed = 10000

-----------------------------------------------------------------------------
(* The view manager's frame: keys, view and projection.  Times are in       *)
(* 1/65536 second.                                                           *)

\* the integer square root
ISqrt(x) == CHOOSE r \in 0 .. 4000 : r * r <= x /\ x < (r + 1) * (r + 1)

\* glm::normalize(v), v and the result in thousandths
glm_normalize(v) ==
    LET length == ISqrt(v[1] * v[1] + v[2] * v[2] + v[3] * v[3])
        Unit(x) == IF x < 0 THEN -((-x * 1000 + length \div 2) \div length)
                   ELSE (x * 1000 + length \div 2) \div length
    IN  <<Unit(v[1]), Unit(v[2]), Unit(v[3])>>

\* the matrices of the view, each kept as the arguments it is built from
glm_lookAt(eye, center, up) == [eye |-> eye, center |-> center, up |-> up]

glm_ortho(left, right, bottom, top, zNear, zFar) ==
    [kind |-> "ortho", left |-> left, right |-> right, bottom |-> bottom,
     top |-> top, zNear |-> zNear, zFar |-> zFar]

glm_perspective(fovy, aspect, zNear, zFar) ==
    [kind |-> "perspective", fovy |-> fovy, aspect |-> aspect, zNear |-> zNear,
     zFar |-> zFar]

\* Camera::GetViewMatrix()
GetViewMatrix(camera) ==
    glm_lookAt(camera.Position,
               <<camera.Position[1] + camera.Front[1],
                 camera.Position[2] + camera.Front[2],
                 camera.Position[3] + camera.Front[3]>>,
               camera.Up)

\* Camera::ProcessKeyboard(direction, deltaTime): the position moves along
\* the camera's front, right or up axis by MovementSpeed * deltaTime
ProcessKeyboard(camera, direction, deltaTime) ==
    LET velocity == (camera.MovementSpeed * deltaTime) \div 65536
        axis == CASE direction \in {"FORWARD", "BACKWARD"} -> camera.Front
                  [] direction \in {"LEFT", "RIGHT"} -> camera.Right
                  [] direction \in {"UP", "DOWN"} -> camera.Up
        sign == IF direction \in {"FORWARD", "RIGHT", "UP"} THEN 1 ELSE -1
        Moved(i) == camera.Position[i] + sign * ((axis[i] * velocity) \div 1000)
    IN  [camera EXCEPT !.Position = <<Moved(1), Moved(2), Moved(3)>>]

Keys == {"ESCAPE", "W", "S", "A", "D", "Q", "E", "P", "O", "1", "2", "3", "4"}

\* only O pressed right now selects the orthographic projection
ProjectionKeys_WhileHeld(keys, orthographic) == "O" \in keys

\* the P key is tested first, the O key after it
ProjectionKeys(keys, orthographic) ==
    LET afterP == IF "P" \in keys THEN FALSE ELSE orthographic
    IN  IF "O" \in keys THEN TRUE ELSE afterP

\* the movement keys, each tested in turn
MovementKeys(camera, keys, deltaTime) ==
    LET Move(c, key, direction) ==
            IF key \in keys THEN ProcessKeyboard(c, direction, deltaTime) ELSE c
    IN  Move(Move(Move(Move(Move(Move(camera, "W", "FORWARD"), "S", "BACKWARD"),
                            "A", "LEFT"), "D", "RIGHT"), "Q", "UP"), "E", "DOWN")

\* the keys 1 to 4, each tested in turn: front, right side, top, left view
PresetKeys(camera, keys) ==
    LET Preset(c, key, position, up, front) ==
            IF key \in keys
            THEN [c EXCEPT !.Position = position, !.Up = up, !.Front = front]
            ELSE c
    IN  Preset(Preset(Preset(Preset(camera,
            "1", <<0, 5000, 25000>>, <<0, 1000, 0>>, glm_normalize(<<0, 0, -1000>>)),
            "2", <<25000, 5000, 0>>, <<0, 1000, 0>>, glm_normalize(<<-1000, 0, 0>>)),
            "3", <<0, 30000, 10>>, <<0, 0, -1000>>, <<0, -1000, 0>>),
            "4", <<-20000, 8000, 20000>>, <<0, 1000, 0>>,
                 glm_normalize(<<1000, -300, -1000>>))

\* ViewManager::ProcessKeyboardEvents() with the keys that are down
ProcessKeyboardEvents(keys) ==
    /\ m_pWindow' = [m_pWindow EXCEPT !.shouldClose = @ \/ "ESCAPE" \in keys]
    /\ g_pCamera' = PresetKeys(MovementKeys(g_pCamera, keys,
                                            (gDeltaTime' * cameraSpeed) \div 1000),
                               keys)
    /\ bOrthographicProjection' = ProjectionKeys(keys, bOrthographicProjection)

\* the projection of the frame
Projection(orthographic, camera) ==
    IF orthographic
    THEN glm_ortho(-20000, 20000,
                   (-20000 * WINDOW_HEIGHT) \div WINDOW_WIDTH,
                   (20000 * WINDOW_HEIGHT) \div WINDOW_WIDTH,
                   100, 100000)
    ELSE glm_perspective(glm_radians(camera.Zoom \div 1000),
                         (WINDOW_WIDTH * 1000) \div WINDOW_HEIGHT, 100, 100000)

\* ViewManager::PrepareSceneView() at time glfwGetTime() with the keys down
PrepareSceneView(time, keys) ==
    /\ ~faulted
    /\ gDeltaTime' = ToFloat(ToFloat(time) - gLastFrame)
    /\ gLastFrame' = ToFloat(time)
    /\ ProcessKeyboardEvents(keys)
    /\ shader' = IF m_pShaderManager # NULL
                 THEN setValue(setValue(setValue(Begin(shader),
                          "view", GetViewMatrix(g_pCamera')),
                          "projection", Projection(bOrthographicProjection', g_pCamera')),
                          "viewPosition", g_pCamera'.Position)
                 ELSE Begin(shader)
    /\ lastCall' = [op |-> "PrepareSceneView", keys |-> keys,
                    orthographic |-> bOrthographicProjection]
    /\ UNCHANGED <<m_pShaderManager, m_objectMaterials, textureVars, drawn,
                   lastAppearance, faulted, renderVars, unreadable, gLastX, gLastY,
                   gFirstMouse, cameraSpeed, pointer>>

\* the keys found down in a frame
KeySets ==
    {{}, {"O"}, {"P"}, {"O", "P"}, {"W", "D", "Q"}, {"S", "A", "E"}, {"1"}, {"2"},
     {"3"}, {"4"}, {"ESCAPE"}}

\* the time between two frames
FrameTimes == {1024, 2048}

MaxViewFrames == 3

NextView ==
    \E time \in {gLastFrame + elapsed : elapsed \in FrameTimes}, keys \in KeySets :
        /\ gLastFrame < MaxViewFrames * 1024
        /\ PrepareSceneView(time, keys)

SpecView == Init /\ [][NextView]_vars

\* C25 as stated: the program starts in perspective; a frame with O down is
\* orthographic, a frame with P down is perspective, a frame with neither
\* keeps the mode, and the projection pushed is the one of the frame's mode.
ProjectionKeysSelect ==
    [][/\ lastCall.op = "SceneManager" => ~bOrthographicProjection
       /\ lastCall'.op = "PrepareSceneView" =>
            /\ "O" \in lastCall'.keys => bOrthographicProjection'
            /\ "P" \in lastCall'.keys => ~bOrthographicProjection'
            /\ lastCall'.keys \cap {"O", "P"} = {} =>
                  bOrthographicProjection' = bOrthographicProjection
            /\ shader'.values["projection"].kind =
                  IF bOrthographicProjection' THEN "ortho" ELSE "perspective"]_vars

\* C25: the program starts in perspective; a frame with O down is
\* orthographic, also when P is down with it; a frame with P down and O up
\* is perspective; a frame with neither keeps the mode; the projection
\* pushed is the one of the mode after the frame's keys.
ProjectionKeysSelectOWins ==
    [][/\ lastCall.op = "SceneManager" => ~bOrthographicProjection
       /\ lastCall'.op = "PrepareSceneView" =>
            /\ "O" \in lastCall'.keys => bOrthographicProjection'
            /\ ("P" \in lastCall'.keys /\ "O" \notin lastCall'.keys) =>
                  ~bOrthographicProjection'
            /\ lastCall'.keys \cap {"O", "P"} = {} =>
                  bOrthographicProjection' = bOrthographicProjection
            /\ "projection" \in {shader'.log[i] : i \in 1 .. Len(shader'.log)}
            /\ shader'.values["projection"] =
                  IF bOrthographicProjection'
                  THEN glm_ortho(-20000, 20000, -16000, 16000, 100, 100000)
                  ELSE glm_perspective(glm_radians(g_pCamera'.Zoom \div 1000),
                                       1250, 100, 100000)]_vars

\* C25 witness: P pressed in an orthographic frame brought perspective back
PerspectiveRestored ==
    /\ lastCall.op = "PrepareSceneView"
    /\ lastCall.keys = {"P"}
    /\ lastCall.orthographic
    /\ ~bOrthographicProjection
    /\ shader.values["projection"].kind = "perspective"

-----------------------------------------------------------------------------
(* PrepareScene and RenderScene, call by call *)

\* the calls as the scene's methods issue them, with the source line of
\* each; lengths in thousandths, colours and UV scales in hundredths
CreateGLTextureCall(line, filename, tag) ==
    [op |-> "CreateGLTexture", line |-> line, filename |-> filename, tag |-> tag]

BindGLTexturesCall(line) == [op |-> "BindGLTextures", line |-> line]

DefineObjectMaterialsCall(line) == [op |-> "DefineObjectMaterials", line |-> line]

SetupSceneLightsCall(line) == [op |-> "SetupSceneLights", line |-> line]

SetTransformationsCall(line, scaleXYZ, XrotationDegrees, YrotationDegrees, ZrotationDegrees, positionXYZ) ==
    [op |-> "SetTransformations", line |-> line, scaleXYZ |-> scaleXYZ,
     XrotationDegrees |-> XrotationDegrees, YrotationDegrees |-> YrotationDegrees,
     ZrotationDegrees |-> ZrotationDegrees, positionXYZ |-> positionXYZ]

SetShaderColorCall(line, color) ==
    [op |-> "SetShaderColor", line |-> line, color |-> color]

SetTextureUVScaleCall(line, uv) ==
    [op |-> "SetTextureUVScale", line |-> line, uv |-> uv]

SetShaderTextureCall(line, textureTag) ==
    [op |-> "SetShaderTexture", line |-> line, tag |-> textureTag]

SetShaderMaterialCall(line, materialTag) ==
    [op |-> "SetShaderMaterial", line |-> line, tag |-> materialTag]

DrawCall(line, mesh, arguments) ==
    [op |-> "DrawMesh", line |-> line, mesh |-> mesh, arguments |-> arguments]

\* SceneManager::LoadSceneTextures, lines 393-454
LoadSceneTextures ==
    <<CreateGLTextureCall(398, "textures/wood-floor.jpg", "Floor"),
      CreateGLTextureCall(402, "textures/Mustard_Yellow_Rubber.jpg", "Yellow_rubber"),
      CreateGLTextureCall(406, "textures/Martinellis_Label.jpg", "Bottle_label"),
      CreateGLTextureCall(410, "textures/Aluminium_Foil.jpg", "Metal_wrap"),
      CreateGLTextureCall(414, "textures/Cup_Blue_Pastel.jpg", "Blue_pastel"),
      CreateGLTextureCall(418, "textures/Metal_Ribbon.jpg", "Metal_Ribbon"),
      CreateGLTextureCall(422, "textures/Door.png", "Door"),
      CreateGLTextureCall(426, "textures/Wood_trim_1.jpg", "Trim1"),
      CreateGLTextureCall(430, "textures/Wood_trim_2.jpg", "Trim2"),
      CreateGLTextureCall(434, "textures/Wall_texture.jpg", "Wall"),
      CreateGLTextureCall(438, "textures/Jam_lable.png", "Jam"),
      CreateGLTextureCall(442, "textures/Jam_lable_2.png", "Jam_2"),
      CreateGLTextureCall(446, "textures/Nutrition_Label.png", "Nutrition_facts"),
      BindGLTexturesCall(453)>>

\* SceneManager::RenderBackground, lines 600-867
RenderBackground ==
    <<SetTransformationsCall(623, <<50000, 1000, 60000>>, 0, 0, 0,
                               <<0, 0, -10000>>),
      SetShaderColorCall(631, <<100, 100, 100, 100>>),
      SetTextureUVScaleCall(634, <<30, 30>>),
      SetShaderTextureCall(637, "Floor"),
      SetShaderMaterialCall(640, "floor_material"),
      DrawCall(643, "DrawPlaneMesh", ""),
      SetTransformationsCall(661, <<50000, 1000, 60000>>, 90, 0, 0,
                               <<0, 64000, -50000>>),
      SetTextureUVScaleCall(669, <<100, 100>>),
      SetShaderTextureCall(672, "Door"),
      DrawCall(675, "DrawPlaneMesh", ""),
      SetTransformationsCall(693, <<50000, 1000, 3000>>, 90, 0, 0,
                               <<0, 0, -50000>>),
      SetTextureUVScaleCall(701, <<100, 10>>),
      SetShaderTextureCall(704, "Trim2"),
      DrawCall(707, "DrawPlaneMesh", ""),
      SetTransformationsCall(725, <<50000, 1000, 500>>, 90, 0, 0,
                               <<0, 3500, -50000>>),
      SetShaderColorCall(733, <<0, 0, 0, 100>>),
      DrawCall(736, "DrawPlaneMesh", ""),
      SetTransformationsCall(754, <<50000, 1000, 60000>>, 90, 90, 0,
                               <<-50000, 64000, 0>>),
      SetTextureUVScaleCall(762, <<100, 100>>),
      SetShaderTextureCall(765, "Wall"),
      DrawCall(768, "DrawPlaneMesh", ""),
      SetTransformationsCall(786, <<50000, 1000, 4000>>, 90, 90, 0,
                               <<-50000, 0, 0>>),
      SetTextureUVScaleCall(794, <<100, 10>>),
      SetShaderTextureCall(797, "Trim1"),
      DrawCall(800, "DrawPlaneMesh", ""),
      SetTransformationsCall(818, <<50000, 1000, 60000>>, 90, 90, 0,
                               <<50000, 64000, 0>>),
      SetTextureUVScaleCall(826, <<100, 100>>),
      SetShaderTextureCall(829, "Wall"),
      DrawCall(832, "DrawPlaneMesh", ""),
      SetTransformationsCall(850, <<50000, 1000, 4000>>, 90, 90, 0,
                               <<50000, 0, 0>>),
      SetTextureUVScaleCall(858, <<100, 10>>),
      SetShaderTextureCall(861, "Trim1"),
      DrawCall(864, "DrawPlaneMesh", "")>>

\* SceneManager::RenderPacifier, lines 876-1059
RenderPacifier(Xpos, Ypos, Zpos) ==
    <<SetTransformationsCall(899, <<1250, 1200, 1000>>, 225, 45, 0,
                               <<0 + Xpos, 1100 + Ypos, 0 + Zpos>>),
      SetTextureUVScaleCall(907, <<100, 20>>),
      SetShaderTextureCall(910, "Yellow_rubber"),
      SetShaderMaterialCall(913, "pacifier_material"),
      DrawCall(916, "DrawHalfTorusMesh", ""),
      SetTransformationsCall(934, <<250, 1700, 1700>>, 0, -30, 55,
                               <<0 + Xpos, 1150 + Ypos, 0 + Zpos>>),
      SetTextureUVScaleCall(942, <<20, 20>>),
      SetShaderTextureCall(945, "Yellow_rubber"),
      SetShaderMaterialCall(948, "pacifier_material"),
      DrawCall(951, "DrawSphereMesh", ""),
      SetTransformationsCall(969, <<850, 850, 850>>, 30, 0, 315,
                               <<0 + Xpos, 1150 + Ypos, 0 + Zpos>>),
      SetTextureUVScaleCall(977, <<20, 20>>),
      SetShaderTextureCall(980, "Yellow_rubber"),
      SetShaderMaterialCall(983, "pacifier_material"),
      DrawCall(986, "DrawHalfSphereMesh", ""),
      SetTransformationsCall(1004, <<400, 1250, 400>>, 30, 0, 325,
                               <<350 + Xpos, 1650 + Ypos, 350 + Zpos>>),
      SetTextureUVScaleCall(1012, <<20, 20>>),
      SetShaderTextureCall(1015, "Yellow_rubber"),
      SetShaderMaterialCall(1018, "pacifier_material"),
      DrawCall(1021, "DrawCylinderMesh", "false, false, true"),
      SetTransformationsCall(1039, <<450, 450, 450>>, 0, 0, 0,
                               <<900 + Xpos, 2450 + Ypos, 900 + Zpos>>),
      SetTextureUVScaleCall(1047, <<20, 20>>),
      SetShaderTextureCall(1050, "Yellow_rubber"),
      SetShaderMaterialCall(1053, "pacifier_material"),
      DrawCall(1056, "DrawSphereMesh", "")>>

\* SceneManager::RenderBabyLotion, lines 1068-1204
RenderBabyLotion(Xpos, Ypos, Zpos) ==
    <<SetTransformationsCall(1091, <<450, 1000, 450>>, 0, 0, 0,
                               <<0 + Xpos, 6000 + Ypos, 0 + Zpos>>),
      SetShaderColorCall(1099, <<92, 87, 90, 100>>),
      SetShaderMaterialCall(1102, "plastic_bottle_material"),
      DrawCall(1105, "DrawCylinderMesh", "true, false, true"),
      SetTransformationsCall(1123, <<2500, 2000, 1400>>, 0, 0, 180,
                               <<0 + Xpos, 2001 + Ypos, 0 + Zpos>>),
      SetShaderColorCall(1131, <<94, 67, 83, 100>>),
      SetShaderMaterialCall(1134, "plastic_bottle_material"),
      DrawCall(1137, "DrawTaperedCylinderMesh", "true, false, true"),
      SetTransformationsCall(1155, <<2500, 3000, 1400>>, 0, 0, 0,
                               <<0 + Xpos, 2000 + Ypos, 0 + Zpos>>),
      SetShaderColorCall(1163, <<94, 67, 83, 100>>),
      SetShaderMaterialCall(1166, "plastic_bottle_material"),
      DrawCall(1169, "DrawTaperedCylinderMesh", "false, false, true"),
      SetTransformationsCall(1187, <<1250, 1000, 700>>, 0, 0, 0,
                               <<0 + Xpos, 5000 + Ypos, 0 + Zpos>>),
      SetShaderColorCall(1195, <<94, 67, 83, 30>>),
      SetShaderMaterialCall(1198, "plastic_bottle_material"),
      DrawCall(1201, "DrawTaperedCylinderMesh", "true, false, true")>>

\* the cup with its handle drawn without a colour of its own
RenderCup_HandleUncoloured(Xpos, Ypos, Zpos) ==
    <<SetTransformationsCall(1236, <<4500, 8000, 4500>>, 0, 30, 0,
                               <<0 + Xpos, 0 + Ypos, 0 + Zpos>>),
      SetTextureUVScaleCall(1244, <<100, 20>>),
      SetShaderTextureCall(1247, "Blue_pastel"),
      DrawCall(1250, "DrawCylinderMesh", "false, true, true"),
      SetTransformationsCall(1268, <<2750, 4000, 2500>>, 320, 0, 270,
                               <<3390 + Xpos, 4000 + Ypos, -2940 + Zpos>>),
      DrawCall(1279, "DrawHalfTorusMesh", "")>>

\* the cup with its handle placed without the offset
RenderCup_HandleAtOrigin(Xpos, Ypos, Zpos) ==
    <<SetTransformationsCall(1236, <<4500, 8000, 4500>>, 0, 30, 0,
                               <<0 + Xpos, 0 + Ypos, 0 + Zpos>>),
      SetTextureUVScaleCall(1244, <<100, 20>>),
      SetShaderTextureCall(1247, "Blue_pastel"),
      DrawCall(1250, "DrawCylinderMesh", "false, true, true"),
      SetTransformationsCall(1268, <<2750, 4000, 2500>>, 320, 0, 270,
                               <<3390, 4000, -2940>>),
      SetShaderColorCall(1276, <<13, 25, 39, 100>>),
      DrawCall(1279, "DrawHalfTorusMesh", "")>>

\* SceneManager::RenderCup, lines 1213-1282
RenderCup(Xpos, Ypos, Zpos) ==
    <<SetTransformationsCall(1236, <<4500, 8000, 4500>>, 0, 30, 0,
                               <<0 + Xpos, 0 + Ypos, 0 + Zpos>>),
      SetTextureUVScaleCall(1244, <<100, 20>>),
      SetShaderTextureCall(1247, "Blue_pastel"),
      DrawCall(1250, "DrawCylinderMesh", "false, true, true"),
      SetTransformationsCall(1268, <<2750, 4000, 2500>>, 320, 0, 270,
                               <<3390 + Xpos, 4000 + Ypos, -2940 + Zpos>>),
      SetShaderColorCall(1276, <<13, 25, 39, 100>>),
      DrawCall(1279, "DrawHalfTorusMesh", "")>>

\* SceneManager::RenderJam, lines 1291-1498
RenderJam(Xpos, Ypos, Zpos) ==
    <<SetTransformationsCall(1314, <<6000, 3000, 6000>>, 0, -15, 0,
                               <<0 + Xpos, 2500 + Ypos, 0 + Zpos>>),
      SetTextureUVScaleCall(1322, <<100, 100>>),
      SetShaderTextureCall(1323, "Jam_2"),
      DrawCall(1324, "DrawBoxMeshSide", "ShapeMeshes::right"),
      SetTextureUVScaleCall(1327, <<100, 100>>),
      SetShaderTextureCall(1328, "Jam"),
      DrawCall(1329, "DrawBoxMeshSide", "ShapeMeshes::bottom"),
      SetTextureUVScaleCall(1332, <<100, 100>>),
      SetShaderTextureCall(1333, "Nutrition_facts"),
      DrawCall(1334, "DrawBoxMeshSide", "ShapeMeshes::left"),
      SetShaderColorCall(1337, <<28, 18, 10, 100>>),
      SetShaderMaterialCall(1338, "brown_glass_material"),
      DrawCall(1339, "DrawBoxMeshSide", "ShapeMeshes::front"),
      SetTransformationsCall(1357, <<6000, 1000, 6000>>, 0, -15, 0,
                               <<0 + Xpos, 500 + Ypos, 0 + Zpos>>),
      SetShaderColorCall(1365, <<28, 18, 10, 100>>),
      SetShaderMaterialCall(1368, "brown_glass_material"),
      DrawCall(1371, "DrawBoxMesh", ""),
      SetTransformationsCall(1389, <<6000, 1500, 6000>>, 0, -15, 0,
                               <<0 + Xpos, 4750 + Ypos, 0 + Zpos>>),
      SetShaderColorCall(1397, <<28, 18, 10, 100>>),
      SetShaderMaterialCall(1400, "brown_glass_material"),
      DrawCall(1403, "DrawBoxMesh", ""),
      SetTransformationsCall(1421, <<2500, 1000, 2500>>, 0, 0, 0,
                               <<0 + Xpos, 5500 + Ypos, 0 + Zpos>>),
      SetShaderColorCall(1429, <<28, 18, 10, 100>>),
      SetShaderMaterialCall(1432, "brown_glass_material"),
      DrawCall(1435, "DrawCylinderMesh", "false, false, true"),
      SetTransformationsCall(1453, <<2500, 2500, 5000>>, 90, 0, 0,
                               <<0 + Xpos, 6500 + Ypos, 0 + Zpos>>),
      SetShaderColorCall(1461, <<13, 33, 19, 100>>),
      SetShaderMaterialCall(1464, "metal_lid_material"),
      DrawCall(1467, "DrawExtraTorusMesh1", ""),
      SetTransformationsCall(1481, <<2500, 1000, 2500>>, 0, 0, 0,
                               <<0 + Xpos, 6700 + Ypos, 0 + Zpos>>),
      SetShaderColorCall(1489, <<13, 33, 19, 100>>),
      SetShaderMaterialCall(1492, "metal_lid_material"),
      DrawCall(1495, "DrawCylinderMesh", "false, true, false")>>

\* SceneManager::RenderBottle, lines 1507-1759
RenderBottle(Xpos, Ypos, Zpos) ==
    <<SetTransformationsCall(1530, <<3750, 8500, 3750>>, 0, 100, 0,
                               <<0 + Xpos, 1500 + Ypos, 0 + Zpos>>),
      SetTextureUVScaleCall(1538, <<-100, 100>>),
      SetShaderTextureCall(1541, "Bottle_label"),
      DrawCall(1544, "DrawCylinderMesh", "false, false, true"),
      SetTransformationsCall(1562, <<1790, 2000, 1790>>, 0, 0, 0,
                               <<0 + Xpos, 15750 + Ypos, 0 + Zpos>>),
      SetTextureUVScaleCall(1570, <<100, 100>>),
      SetShaderTextureCall(1573, "Metal_Ribbon"),
      DrawCall(1576, "DrawTaperedCylinderMesh", "false, false, true"),
      SetTransformationsCall(1594, <<960, 5500, 960>>, 0, 0, 0,
                               <<0 + Xpos, 17600 + Ypos, 0 + Zpos>>),
      SetTextureUVScaleCall(1602, <<100, 100>>),
      SetShaderTextureCall(1605, "Metal_wrap"),
      DrawCall(1608, "DrawCylinderMesh", "true, false, true"),
      SetTransformationsCall(1622, <<1000, 1000, 5000>>, 90, 0, 0,
                               <<0 + Xpos, 22000 + Ypos, 0 + Zpos>>),
      SetTextureUVScaleCall(1630, <<50, 50>>),
      SetShaderTextureCall(1633, "Metal_wrap"),
      DrawCall(1636, "DrawExtraTorusMesh1", ""),
      SetTransformationsCall(1654, <<3390, 3390, 15000>>, 90, 0, 0,
                               <<0 + Xpos, 1500 + Ypos, 0 + Zpos>>),
      SetShaderColorCall(1662, <<16, 26, 10, 90>>),
      SetShaderMaterialCall(1665, "glass"),
      DrawCall(1668, "DrawExtraTorusMesh1", ""),
      SetTransformationsCall(1682, <<3390, 1000, 3390>>, 0, 0, 0,
                               <<0 + Xpos, 1500 + Ypos, 0 + Zpos>>),
      SetShaderColorCall(1690, <<16, 26, 10, 90>>),
      SetShaderMaterialCall(1693, "glass"),
      DrawCall(1696, "DrawCylinderMesh", "false, true, false"),
      SetTransformationsCall(1714, <<3390, 3390, 20000>>, 90, 0, 0,
                               <<0 + Xpos, 10000 + Ypos, 0 + Zpos>>),
      SetShaderColorCall(1722, <<16, 26, 10, 90>>),
      SetShaderMaterialCall(1725, "glass"),
      DrawCall(1728, "DrawExtraTorusMesh1", ""),
      SetTransformationsCall(1742, <<3545, 4000, 3545>>, 0, 0, 0,
                               <<0 + Xpos, 11800 + Ypos, 0 + Zpos>>),
      SetShaderColorCall(1750, <<16, 26, 10, 90>>),
      SetShaderMaterialCall(1753, "glass"),
      DrawCall(1756, "DrawTaperedCylinderMesh", "false, false, true")>>

\* the calls of one method, each marked with the method issuing it
Within(assembly, calls) ==
    [i \in 1 .. Len(calls) |-> [call |-> calls[i], assembly |-> assembly]]

PrepareScene ==
    Within("PrepareScene",
           LoadSceneTextures
           \o <<DefineObjectMaterialsCall(559), SetupSceneLightsCall(562)>>)

\* the jam jar drawn without its offset
RenderScene_JamAtOrigin ==
    Within("RenderBackground", RenderBackground)
    \o Within("RenderPacifier", RenderPacifier(2800, 75, 2000))
    \o Within("RenderCup", RenderCup(-9000, 5, -7000))
    \o Within("RenderBottle", RenderBottle(1000, 0, -8000))
    \o Within("RenderJam", RenderJam(0, 0, 0))
    \o Within("RenderBabyLotion", RenderBabyLotion(0, 0, 0))

\* the lights configured again in every frame
RenderScene_LightsPerFrame ==
    Within("RenderBackground", <<SetupSceneLightsCall(584)>> \o RenderBackground)
    \o Within("RenderPacifier", RenderPacifier(2800, 75, 2000))
    \o Within("RenderCup", RenderCup(-9000, 5, -7000))
    \o Within("RenderBottle", RenderBottle(1000, 0, -8000))
    \o Within("RenderJam", RenderJam(9000, 1, -4000))
    \o Within("RenderBabyLotion", RenderBabyLotion(0, 0, 0))

\* the lotion bottle drawn before the other objects
RenderScene_LotionFirst ==
    Within("RenderBackground", RenderBackground)
    \o Within("RenderBabyLotion", RenderBabyLotion(0, 0, 0))
    \o Within("RenderPacifier", RenderPacifier(2800, 75, 2000))
    \o Within("RenderCup", RenderCup(-9000, 5, -7000))
    \o Within("RenderBottle", RenderBottle(1000, 0, -8000))
    \o Within("RenderJam", RenderJam(9000, 1, -4000))

\* the background drawn after the objects
RenderScene_BackgroundLast ==
    Within("RenderPacifier", RenderPacifier(2800, 75, 2000))
    \o Within("RenderCup", RenderCup(-9000, 5, -7000))
    \o Within("RenderBottle", RenderBottle(1000, 0, -8000))
    \o Within("RenderJam", RenderJam(9000, 1, -4000))
    \o Within("RenderBabyLotion", RenderBabyLotion(0, 0, 0))
    \o Within("RenderBackground", RenderBackground)

\* SceneManager::RenderScene, lines 583-592
RenderScene ==
    Within("RenderBackground", RenderBackground)
    \o Within("RenderPacifier", RenderPacifier(2800, 75, 2000))
    \o Within("RenderCup", RenderCup(-9000, 5, -7000))
    \o Within("RenderBottle", RenderBottle(1000, 0, -8000))
    \o Within("RenderJam", RenderJam(9000, 1, -4000))
    \o Within("RenderBabyLotion", RenderBabyLotion(0, 0, 0))

\* PrepareScene once, then RenderScene frame after frame
SceneProgram == PrepareScene \o RenderScene

MaxFrames == 2

Running == pc <= Len(SceneProgram)

Current == SceneProgram[pc].call

\* the call after the current one; the next frame starts over at RenderScene
NextPc ==
    IF pc = Len(SceneProgram) /\ unit.frame < MaxFrames
    THEN Len(PrepareScene) + 1
    ELSE pc + 1

NextFrame ==
    IF pc = Len(SceneProgram) THEN unit.frame + 1 ELSE unit.frame

\* who wrote each uniform last, after a call that wrote the uniforms in log
WriterAfter(log) ==
    [n \in UniformNames |->
        IF \E i \in 1 .. Len(log) : log[i] = n
        THEN [assembly |-> SceneProgram[pc].assembly, frame |-> unit.frame]
        ELSE unit.writer[n]]

\* a call that is not a draw has run
\* the draw states a frame may start from: the uniforms of a fresh program,
\* or values some earlier drawing left behind
StartingDrawStates ==
    {[n \in DrawUniformNames |-> InitialUniforms[n]],
     [n \in DrawUniformNames |->
         CASE n = "model" -> glm_translate(<<1000, 2000, 3000>>)
           [] n = "bUseTexture" -> 1
           [] n = "objectTexture" -> 7
           [] n = "objectColor" -> <<94, 67, 83, 30>>
           [] n = "UVscale" -> <<300, 300>>
           [] n = "material.shininess" -> 6400
           [] OTHER -> <<10, 30, 10>>]}

\* the shader state as it is now, its draw state replaced
StartingFrom(sh, start) ==
    [values |-> [n \in UniformNames |->
                    IF n \in DrawUniformNames THEN start[n] ELSE sh.values[n]],
     log |-> <<>>]

\* the setter of a call applied to a shader state; local is what the
\* uninitialised material of SetShaderMaterial holds
Staged(sh, call, local) ==
    IF m_pShaderManager = NULL
    THEN Begin(sh)
    ELSE CASE call.op = "SetTransformations" ->
                 setValue(Begin(sh), "model",
                          ComposeTransform(call.scaleXYZ, call.XrotationDegrees,
                                           call.YrotationDegrees, call.ZrotationDegrees,
                                           call.positionXYZ))
           [] call.op = "SetShaderColor" -> SetShaderColorUniforms(Begin(sh), call.color)
           [] call.op = "SetTextureUVScale" -> setValue(Begin(sh), "UVscale", call.uv)
           [] call.op = "SetShaderTexture" -> SetShaderTextureUniforms(Begin(sh), call.tag)
           [] call.op = "SetShaderMaterial" ->
                 IF ArrayLen(m_objectMaterials) > 0 /\ FindMaterial(call.tag, local).bReturn
                 THEN SetShaderMaterialUniforms(Begin(sh),
                                                FindMaterial(call.tag, local).material)
                 ELSE Begin(sh)

Issued(op) ==
    /\ pc' = NextPc
    /\ \E local \in IndeterminateMaterials :
          unit' = [unit EXCEPT !.frame = NextFrame,
                               !.calls = Append(@, op),
                               !.writer = WriterAfter(shader'.log),
                               !.twin = Staged(@, Current, local)]
    /\ UNCHANGED <<rendering, unreadable, viewVars>>

SceneCreateGLTexture ==
    /\ Running
    /\ Current.op = "CreateGLTexture"
    /\ CreateGLTexture(Current.filename, Current.tag)
    /\ pc' = NextPc
    /\ UNCHANGED <<unit, rendering, unreadable, viewVars>>

SceneBindGLTextures ==
    /\ Running
    /\ Current.op = "BindGLTextures"
    /\ BindGLTextures
    /\ pc' = NextPc
    /\ UNCHANGED <<unit, rendering, unreadable, viewVars>>

SceneDefineObjectMaterials ==
    /\ Running
    /\ Current.op = "DefineObjectMaterials"
    /\ DefineObjectMaterials
    /\ pc' = NextPc
    /\ UNCHANGED <<unit, rendering, unreadable, viewVars>>

SceneSetupSceneLights ==
    /\ Running
    /\ Current.op = "SetupSceneLights"
    /\ SetupSceneLights
    /\ pc' = NextPc
    /\ \E start \in StartingDrawStates :
          unit' = [unit EXCEPT !.writer = WriterAfter(shader'.log),
                               !.twin = StartingFrom(shader', start)]
    /\ UNCHANGED <<rendering, unreadable, viewVars>>

SceneSetTransformations ==
    /\ Running
    /\ Current.op = "SetTransformations"
    /\ SetTransformations(Current.scaleXYZ, Current.XrotationDegrees,
                          Current.YrotationDegrees, Current.ZrotationDegrees,
                          Current.positionXYZ)
    /\ Issued("SetTransformations")

SceneSetShaderColor ==
    /\ Running
    /\ Current.op = "SetShaderColor"
    /\ SetShaderColor(Current.color)
    /\ Issued("SetShaderColor")

SceneSetTextureUVScale ==
    /\ Running
    /\ Current.op = "SetTextureUVScale"
    /\ SetTextureUVScale(Current.uv)
    /\ Issued("SetTextureUVScale")

SceneSetShaderTexture ==
    /\ Running
    /\ Current.op = "SetShaderTexture"
    /\ SetShaderTexture(Current.tag)
    /\ Issued("SetShaderTexture")

SceneSetShaderMaterial ==
    /\ Running
    /\ Current.op = "SetShaderMaterial"
    /\ SetShaderMaterial(Current.tag)
    /\ Issued("SetShaderMaterial")

\* m_basicMeshes->Draw...Mesh(...): the draw ends the unit
SceneDrawMesh ==
    /\ Running
    /\ Current.op = "DrawMesh"
    /\ DrawMesh
    /\ pc' = NextPc
    /\ \E start \in StartingDrawStates :
          unit' = [unit EXCEPT !.frame = NextFrame,
                               !.calls = <<>>,
                               !.atDraw = [issued |-> TRUE,
                                           assembly |-> SceneProgram[pc].assembly,
                                           frame |-> unit.frame,
                                           line |-> Current.line,
                                           mesh |-> Current.mesh,
                                           calls |-> unit.calls,
                                           writer |-> unit.writer,
                                           twin |-> unit.twin.values],
                               !.twin = IF pc = Len(SceneProgram)
                                        THEN StartingFrom(shader, start)
                                        ELSE @]
    /\ UNCHANGED <<rendering, unreadable, viewVars>>

NextScene ==
    \/ SceneCreateGLTexture
    \/ SceneBindGLTextures
    \/ SceneDefineObjectMaterials
    \/ SceneSetupSceneLights
    \/ SceneSetTransformations
    \/ SceneSetShaderColor
    \/ SceneSetTextureUVScale
    \/ SceneSetShaderTexture
    \/ SceneSetShaderMaterial
    \/ SceneDrawMesh

SpecScene == Init /\ [][NextScene]_vars

\* the calls between the previous draw and the most recent one
CallsOfUnit == unit.atDraw.calls

TransformsOfUnit ==
    Cardinality({i \in 1 .. Len(CallsOfUnit) : CallsOfUnit[i] = "SetTransformations"})

AppearanceSetters == {"SetShaderColor", "SetShaderTexture"}

\* C19 as stated: before every draw, since the previous draw, there is
\* exactly one SetTransformations call, and it is followed by at least one
\* of SetShaderColor / SetShaderTexture
OneTransformPerDraw ==
    unit.atDraw.issued =>
        /\ TransformsOfUnit = 1
        /\ \E i \in 1 .. Len(CallsOfUnit) :
              /\ CallsOfUnit[i] = "SetTransformations"
              /\ \E j \in i + 1 .. Len(CallsOfUnit) : CallsOfUnit[j] \in AppearanceSetters

\* C19 amended: before every draw, since the previous draw, there is at
\* least one appearance setter and at most one SetTransformations call,
\* which then comes first; only the box-side draws of the jam jar's body
\* after its first one have no transform of their own
AtMostOneTransformPerDraw ==
    unit.atDraw.issued =>
        /\ \E j \in 1 .. Len(CallsOfUnit) : CallsOfUnit[j] \in AppearanceSetters
        /\ TransformsOfUnit <= 1
        /\ TransformsOfUnit = 1 => CallsOfUnit[1] = "SetTransformations"
        /\ TransformsOfUnit = 0 =>
              /\ unit.atDraw.assembly = "RenderJam"
              /\ unit.atDraw.mesh = "DrawBoxMeshSide"

\* C19 witness: the second face of the jam jar's body is drawn after a UV
\* scale and a texture only
BoxSideDrawnWithoutTransform ==
    /\ unit.atDraw.issued
    /\ unit.atDraw.line = 1329
    /\ CallsOfUnit = <<"SetTextureUVScale", "SetShaderTexture">>

\* the staged values a draw consumes
ConsumedUniforms ==
    {"model", "bUseTexture"}
    \cup (IF drawn.values["bUseTexture"] = 1
          THEN {"objectTexture", "UVscale"}
          ELSE {"objectColor"})
    \cup (IF drawn.values["bUseLighting"] = 1
          THEN {"material.diffuseColor", "material.specularColor",
                "material.shininess"}
          ELSE {})

\* C20: every staged value a draw consumes was written by a setter call of
\* the sub-assembly issuing the draw, in the same frame
DrawsUseOwnState ==
    unit.atDraw.issued =>
        \A n \in ConsumedUniforms :
            unit.atDraw.writer[n] =
                [assembly |-> unit.atDraw.assembly, frame |-> unit.atDraw.frame]


-----------------------------------------------------------------------------
(* Cleanup on the return paths of CreateGLTexture *)

\* C29: whenever CreateGLTexture returns after the image was decoded (3, 4 or
\* an unsupported number of channels), the decoded image has been released
\* and the 2D texture binding of the active unit is 0.
DecodedImageReleasedAndUnbound ==
    lastCall.op = "CreateGLTexture" /\ stbi_load(lastCall.filename).image
        => /\ lastCall.imageFreed
           /\ lastCall.bound2D = 0
           /\ glTextureUnits[glActiveTexture] = 0

-----------------------------------------------------------------------------
(* The frame as RenderScene composes it *)

\* the call of the given source line has just returned
AfterLine(line) == pc > 1 /\ SceneProgram[pc - 1].call.line = line

InRenderScene == pc > Len(PrepareScene)

StagedTranslation == <<StagedModel[1][4], StagedModel[2][4], StagedModel[3][4]>>

\* C22: in RenderScene the jam jar is rendered at offset (9, 0.001, -4) and
\* its base box stages the translation (9, 0.501, -4), the local position
\* (0, 0.5, 0) plus the offset.
JamBaseBoxTranslation ==
    AfterLine(1357) =>
        /\ TransformStaged
        /\ lastCall.position = <<0 + 9000, 500 + 1, 0 - 4000>>
        /\ StagedTranslation = <<9000, 501, -4000>>

\* C22 witness: the base box's transform staged in the second frame
JamBaseBoxStaged ==
    /\ AfterLine(1357)
    /\ unit.frame = 2
    /\ StagedModel[4] = <<0, 0, 0, 1000>>
    /\ StagedModel[2][4] = 501

\* C24: the lights are configured by PrepareScene before the first frame and
\* no call of RenderScene, in any frame, writes a light uniform or the
\* use-lighting flag.
LightsFixedAfterPrepareScene ==
    [][InRenderScene =>
         \A n \in LightUniformNames :
            /\ shader.values[n] = SetupSceneLightsUniforms(shader).values[n]
            /\ shader'.values[n] = shader.values[n]
            /\ \A i \in 1 .. Len(shader'.log) : shader'.log[i] # n]_vars

\* C24 witness: a draw of the second frame under the lights PrepareScene set
SecondFrameDrawnUnderLights ==
    /\ unit.atDraw.issued
    /\ unit.atDraw.frame = 2
    /\ drawn.values["bUseLighting"] = 1
    /\ drawn.values[LightUniform(1, "position")] = <<0, 2000, 30000>>
    /\ drawn.values[LightUniform(0, "bActive")] = 1

\* a sampler value that is a texture unit holding a registered texture
SamplerIsBoundUnit(sampler) ==
    /\ sampler \in 0 .. 12
    /\ sampler \in Registered
    /\ glTextureUnits[sampler] = m_textureIDs[sampler].ID

\* C26: with the 13 textures loaded, every SetShaderTexture call of
\* RenderScene stages a sampler 0..12 that is the unit BindGLTextures bound
\* the tag's texture to, and every textured draw samples such a unit.
TexturesResolveInRenderScene ==
    InRenderScene =>
        /\ m_loadedTextures = 13
        /\ lastCall.op = "SetShaderTexture" =>
              /\ shader.values["bUseTexture"] = 1
              /\ SamplerIsBoundUnit(shader.values["objectTexture"])
              /\ m_textureIDs[shader.values["objectTexture"]].tag = lastCall.tag
        /\ (unit.atDraw.issued /\ drawn.values["bUseTexture"] = 1) =>
              SamplerIsBoundUnit(drawn.values["objectTexture"])

\* C26 witness: the texture loaded last is drawn from unit 12
LastTextureDrawn ==
    /\ unit.atDraw.issued
    /\ drawn.values["bUseTexture"] = 1
    /\ drawn.values["objectTexture"] = 12
    /\ glTextureUnits[12] = m_textureIDs[12].ID

\* C27: after DefineObjectMaterials the six material tags are pairwise
\* distinct, and every SetShaderMaterial call of RenderScene names one of
\* them and writes exactly that material's registered values.
MaterialsResolveInRenderScene ==
    InRenderScene =>
        /\ Cardinality(MaterialIndices) = 6
        /\ \A i, j \in MaterialIndices :
              m_objectMaterials[i].tag = m_objectMaterials[j].tag => i = j
        /\ lastCall.op = "SetShaderMaterial" =>
              /\ Cardinality(Matches(lastCall.tag)) = 1
              /\ shader.log = <<"material.diffuseColor", "material.specularColor",
                                "material.shininess">>
              /\ \A i \in Matches(lastCall.tag) :
                    /\ shader.values["material.diffuseColor"] =
                          m_objectMaterials[i].diffuseColor
                    /\ shader.values["material.specularColor"] =
                          m_objectMaterials[i].specularColor
                    /\ shader.values["material.shininess"] =
                          m_objectMaterials[i].shininess

\* C27 witness: the material registered last is staged for the jam jar
BrownGlassStaged ==
    /\ InRenderScene
    /\ lastCall.op = "SetShaderMaterial"
    /\ lastCall.tag = "brown_glass_material"
    /\ shader.values["material.diffuseColor"] = <<50, 30, 10>>
    /\ shader.values["material.shininess"] = 12800

\* the place of a sub-assembly in the frame
Rank(assembly) ==
    CASE assembly = "RenderBackground" -> 1
      [] assembly = "RenderPacifier" -> 2
      [] assembly = "RenderCup" -> 3
      [] assembly = "RenderBottle" -> 4
      [] assembly = "RenderJam" -> 5
      [] assembly = "RenderBabyLotion" -> 6

\* C30: in every frame the draws come in the order background, pacifier,
\* cup, bottle, jam jar, lotion bottle, and the lotion bottle's upper body,
\* the only unit coloured with alpha 0.30, is the last draw of the frame.
AssembliesInFixedOrder ==
    [][lastCall'.op = "DrawMesh" =>
         /\ IF unit.atDraw.issued /\ unit.atDraw.frame = unit'.atDraw.frame
            THEN /\ Rank(unit'.atDraw.assembly) - Rank(unit.atDraw.assembly) \in {0, 1}
                 /\ unit.atDraw.line # 1201
            ELSE /\ Rank(unit'.atDraw.assembly) = 1
                 /\ unit.atDraw.issued => unit.atDraw.line = 1201
         /\ unit'.atDraw.line = 1201 <=> pc = Len(SceneProgram)
         /\ unit'.atDraw.line = 1201 <=>
               /\ drawn'.values["bUseTexture"] = 0
               /\ drawn'.values["objectColor"][4] = 30
         /\ unit'.atDraw.line = 1201 =>
               /\ unit'.atDraw.assembly = "RenderBabyLotion"
               /\ unit'.atDraw.mesh = "DrawTaperedCylinderMesh"
               /\ drawn'.values["objectColor"] = <<94, 67, 83, 30>>]_vars

\* C30 witness: the second frame ended with the translucent upper body
TranslucentBodyDrawnLast ==
    /\ unit.atDraw.issued
    /\ unit.atDraw.frame = 2
    /\ unit.atDraw.line = 1201
    /\ unit.atDraw.assembly = "RenderBabyLotion"
    /\ drawn.values["objectColor"][4] = 30
    /\ pc = Len(SceneProgram) + 1

-----------------------------------------------------------------------------
(* The scene with one of its image files missing *)

SceneFiles == SceneJpegFiles \cup ScenePngFiles

\* one image file of the scene cannot be read
InitLoadFailure ==
    /\ SceneManager("present")
    /\ \E filename \in SceneFiles : unreadable = {filename}

SpecLoadFailure == InitLoadFailure /\ [][NextScene]_vars

\* the file LoadSceneTextures loads for a tag
FileOf(tag) ==
    LET i == CHOOSE i \in 1 .. Len(LoadSceneTextures) :
                 /\ LoadSceneTextures[i].op = "CreateGLTexture"
                 /\ LoadSceneTextures[i].tag = tag
    IN  LoadSceneTextures[i].filename

\* the sampler value the claim expects for a tag
ExpectedSampler(tag, sampler) ==
    IF FileOf(tag) \in unreadable
    THEN sampler = -1
    ELSE /\ sampler \in Registered
         /\ m_textureIDs[sampler].tag = tag
         /\ sampler \in DOMAIN glTextureUnits
         /\ glTextureUnits[sampler] = m_textureIDs[sampler].ID

\* the tag of the SetShaderTexture call nearest before the most recent draw
TagAtDraw ==
    LET k == CHOOSE i \in 1 .. Len(SceneProgram) :
                 SceneProgram[i].call.line = unit.atDraw.line
        setters == {i \in 1 .. k : SceneProgram[i].call.op = "SetShaderTexture"}
        j == CHOOSE i \in setters : \A other \in setters : other <= i
    IN  SceneProgram[j].call.tag

\* C23: when one texture file fails to load, LoadSceneTextures still loads
\* and binds the twelve others and rendering goes on: a draw whose texture
\* tag is the failed one samples -1, a draw whose tag loaded samples the
\* unit that texture was bound to.
LoadFailureStagesMinusOne ==
    /\ ~faulted
    /\ InRenderScene =>
          /\ m_loadedTextures = 13 - Cardinality(unreadable)
          /\ \A i \in 1 .. Len(LoadSceneTextures) - 1 :
                LoadSceneTextures[i].filename \notin unreadable =>
                    \E u \in Registered :
                        /\ m_textureIDs[u].tag = LoadSceneTextures[i].tag
                        /\ glTextureUnits[u] = m_textureIDs[u].ID
          /\ lastCall.op = "SetShaderTexture" =>
                ExpectedSampler(lastCall.tag, shader.values["objectTexture"])
          /\ (unit.atDraw.issued /\ drawn.values["bUseTexture"] = 1) =>
                ExpectedSampler(TagAtDraw, drawn.values["objectTexture"])

\* C23 witness: the floor drawn with sampler -1 while the door's texture,
\* loaded after the floor's, sits in the unit its entry names
FloorDrawnWithoutTexture ==
    /\ unreadable = {"textures/wood-floor.jpg"}
    /\ unit.atDraw.issued
    /\ TagAtDraw = "Floor"
    /\ drawn.values["bUseTexture"] = 1
    /\ drawn.values["objectTexture"] = -1
    /\ m_loadedTextures = 12
    /\ FindTextureSlot("Door") = 5

\* C28: with the shader manager present and the registries fixed, a frame
\* of RenderScene started from any draw state stages the same transform,
\* use-texture flag, colour, texture slot, UV scale and material at every
\* draw as a frame started from any other, and ends in the same draw state.
FrameIndependentOfStartingState ==
    unit.atDraw.issued =>
        \A n \in DrawUniformNames : drawn.values[n] = unit.atDraw.twin[n]

\* C28 witness: the first draw of the second frame, reached from the state
\* the first frame left by one run and from a fresh draw state by its twin
SecondFrameFromTwoStates ==
    /\ unit.atDraw.issued
    /\ unit.atDraw.frame = 2
    /\ unit.atDraw.line = 643
    /\ unit.twin.values["material.shininess"] = 200
    /\ lastCall.op = "DrawMesh"

-----------------------------------------------------------------------------
(* The sub-assembly methods called on their own, at any offset *)

Assemblies ==
    {"RenderBackground", "RenderPacifier", "RenderCup", "RenderBottle", "RenderJam",
     "RenderBabyLotion"}

\* the calls a sub-assembly method issues when it is asked to render at an
\* origin; RenderBackground has no parameters
AssemblyCalls(assembly, origin) ==
    CASE assembly = "RenderBackground" -> RenderBackground
      [] assembly = "RenderPacifier" -> RenderPacifier(origin[1], origin[2], origin[3])
      [] assembly = "RenderCup" -> RenderCup(origin[1], origin[2], origin[3])
      [] assembly = "RenderBottle" -> RenderBottle(origin[1], origin[2], origin[3])
      [] assembly = "RenderJam" -> RenderJam(origin[1], origin[2], origin[3])
      [] assembly = "RenderBabyLotion" -> RenderBabyLotion(origin[1], origin[2], origin[3])

\* origins and shifts, in thousandths
RenderOrigins == {<<0, 0, 0>>, <<9000, 1, -4000>>, <<2800, 75, 2000>>}

OriginShifts == {<<1000, 0, 0>>, <<-500, 250, 3000>>}

MaxRenderCalls == 1

Prepared == pc = Len(PrepareScene) + 1

\* a sub-assembly method is entered
RenderAssembly(assembly, origin) ==
    /\ ~faulted
    /\ Prepared
    /\ rendering.assembly = "none"
    /\ rendering.number < MaxRenderCalls
    /\ rendering' = [assembly |-> assembly, origin |-> origin, at |-> 1,
                     number |-> rendering.number + 1]
    /\ lastCall' = [op |-> assembly, origin |-> origin]
    /\ UNCHANGED <<m_pShaderManager, m_objectMaterials, textureVars, channelVars,
                   faulted, pc, unit, unreadable, viewVars>>

Rendering == rendering.assembly # "none"

RenderingCalls == AssemblyCalls(rendering.assembly, rendering.origin)

CurrentOfAssembly == RenderingCalls[rendering.at]

\* the method goes on to its next call, or returns
Proceeded ==
    /\ rendering' = IF rendering.at = Len(RenderingCalls)
                    THEN [assembly |-> "none", number |-> rendering.number]
                    ELSE [rendering EXCEPT !.at = @ + 1]
    /\ UNCHANGED <<pc, unit, unreadable, viewVars>>

AssemblySetTransformations ==
    /\ Rendering
    /\ CurrentOfAssembly.op = "SetTransformations"
    /\ SetTransformations(CurrentOfAssembly.scaleXYZ, CurrentOfAssembly.XrotationDegrees,
                          CurrentOfAssembly.YrotationDegrees,
                          CurrentOfAssembly.ZrotationDegrees,
                          CurrentOfAssembly.positionXYZ)
    /\ Proceeded

AssemblySetShaderColor ==
    /\ Rendering
    /\ CurrentOfAssembly.op = "SetShaderColor"
    /\ SetShaderColor(CurrentOfAssembly.color)
    /\ Proceeded

AssemblySetTextureUVScale ==
    /\ Rendering
    /\ CurrentOfAssembly.op = "SetTextureUVScale"
    /\ SetTextureUVScale(CurrentOfAssembly.uv)
    /\ Proceeded

AssemblySetShaderTexture ==
    /\ Rendering
    /\ CurrentOfAssembly.op = "SetShaderTexture"
    /\ SetShaderTexture(CurrentOfAssembly.tag)
    /\ Proceeded

AssemblySetShaderMaterial ==
    /\ Rendering
    /\ CurrentOfAssembly.op = "SetShaderMaterial"
    /\ SetShaderMaterial(CurrentOfAssembly.tag)
    /\ Proceeded

AssemblyDrawMesh ==
    /\ Rendering
    /\ CurrentOfAssembly.op = "DrawMesh"
    /\ DrawMesh
    /\ Proceeded

\* PrepareScene, then sub-assembly methods at origins of the caller's choice
NextOffsets ==
    \/ SceneCreateGLTexture
    \/ SceneBindGLTextures
    \/ SceneDefineObjectMaterials
    \/ SceneSetupSceneLights
    \/ \E assembly \in Assemblies, origin \in RenderOrigins :
          RenderAssembly(assembly, origin)
    \/ AssemblySetTransformations
    \/ AssemblySetShaderColor
    \/ AssemblySetTextureUVScale
    \/ AssemblySetShaderTexture
    \/ AssemblySetShaderMaterial
    \/ AssemblyDrawMesh

SpecOffsets == Init /\ [][NextOffsets]_vars

Plus(v, d) == <<v[1] + d[1], v[2] + d[2], v[3] + d[3]>>

\* a model matrix with its translation moved by d and nothing else changed
MovedBy(M, d) ==
    [r \in 1 .. 4 |->
        [c \in 1 .. 4 |-> IF c = 4 /\ r <= 3 THEN M[r][c] + d[r] ELSE M[r][c]]]

ComposedFor(call) ==
    ComposeTransform(call.scaleXYZ, call.XrotationDegrees, call.YrotationDegrees,
                     call.ZrotationDegrees, call.positionXYZ)

\* rendering at the origin moved by d issues the same calls, except that
\* every position is moved by d, and the transform just staged has its
\* translation moved by d and nothing else
ShiftMovesPositionsOnly(d) ==
    LET here == RenderingCalls
        there == AssemblyCalls(rendering.assembly, Plus(rendering.origin, d))
    IN  /\ Len(there) = Len(here)
        /\ \A i \in 1 .. Len(here) :
              there[i] = IF here[i].op = "SetTransformations"
                         THEN [here[i] EXCEPT !.positionXYZ = Plus(@, d)]
                         ELSE here[i]
        /\ (rendering.at > 1 /\ here[rendering.at - 1].op = "SetTransformations") =>
              /\ TransformStaged
              /\ ComposedFor(there[rendering.at - 1]) = MovedBy(StagedModel, d)

\* C21 as stated: each of the six sub-assemblies, the background included,
\* adds its origin offset to every position and to nothing else
EveryAssemblyTakesAnOffset ==
    Rendering => \A d \in OriginShifts : ShiftMovesPositionsOnly(d)

\* C21: the pacifier, the cup, the bottle, the jam jar and the lotion bottle
\* add their origin offset to the position of every draw unit and to nothing
\* else; the background takes no offset and issues the same calls whatever
\* the origin asked for.
ObjectAssembliesTakeAnOffset ==
    Rendering =>
        \A d \in OriginShifts :
            IF rendering.assembly = "RenderBackground"
            THEN AssemblyCalls(rendering.assembly, Plus(rendering.origin, d))
                    = RenderingCalls
            ELSE ShiftMovesPositionsOnly(d)

\* C21 witness: the cup's handle staged with the cup rendered at (9, 0.001, -4)
CupHandleStagedAtOffset ==
    /\ Rendering
    /\ rendering.assembly = "RenderCup"
    /\ rendering.origin = <<9000, 1, -4000>>
    /\ rendering.at > 1
    /\ RenderingCalls[rendering.at - 1].line = 1268
    /\ StagedTranslation = <<3390 + 9000, 4000 + 1, -2940 - 4000>>

====
